---- MODULE Spec2Model ----
(***************************************************************************)
(* A model of the forex trading robot of src/trading_engine.py             *)
(* (ForexTradingRobot) and src/trading_engine_simple.py                    *)
(* (SimpleForexTradingRobot): the risk manager, the ledger of open and     *)
(* closed trades, and the handlers that open, monitor and close trades.    *)
(*                                                                         *)
(* Python floats are modelled as exact rationals <<numerator,              *)
(* denominator>> in lowest terms with a positive denominator; the value    *)
(* None is the pair <<0, 0>>, which is no rational.                        *)
(***************************************************************************)
EXTENDS Integers, Sequences, FiniteSets, TLC

\* The number of trades execute_trade may open in one behaviour.
MaxTrades == 2

----------------------------------------------------------------------------
\* Exact rational arithmetic (the model of float arithmetic).

Abs(x) == IF x < 0 THEN -x ELSE x

RECURSIVE GCD(_, _)
GCD(a, b) == IF b = 0 THEN a ELSE GCD(b, a % b)

Norm(n, d) ==
    LET s == IF d < 0 THEN -1 ELSE 1
        g == GCD(Abs(n), Abs(d))
    IN  <<(s * n) \div g, (s * d) \div g>>

R(n, d) == Norm(n, d)

Zero == <<0, 1>>
None == <<0, 0>>

RNeg(a) == <<-a[1], a[2]>>

RAdd(a, b) ==
    IF a[2] = b[2]
    THEN Norm(a[1] + b[1], a[2])
    ELSE Norm(a[1] * b[2] + b[1] * a[2], a[2] * b[2])

RSub(a, b) == RAdd(a, RNeg(b))

RMul(a, b) == Norm(a[1] * b[1], a[2] * b[2])

RInv(a) == IF a[1] < 0 THEN <<-a[2], -a[1]>> ELSE <<a[2], a[1]>>

RDiv(a, b) == RMul(a, RInv(b))

RLe(a, b) ==
    IF a[2] = b[2] THEN a[1] <= b[1] ELSE a[1] * b[2] <= b[1] * a[2]

RLt(a, b) == RLe(a, b) /\ a # b

RAbs(a) == <<Abs(a[1]), a[2]>>

\* Python's min(a, b): b when b < a, otherwise a.
RMin(a, b) == IF RLt(b, a) THEN b ELSE a

----------------------------------------------------------------------------
\* The program's constants.

StartingBalance == R(10000, 1)
max_risk_per_trade == R(2, 100)
max_daily_loss == R(5, 100)
MaxPositionFraction == R(1, 10)
MinConfidence == R(6, 10)

Robots == {"ForexTradingRobot", "SimpleForexTradingRobot"}

VARIABLES
    robot,            \* which of the two robot classes is running
    active_trades,    \* the list of open trades
    trade_history,    \* the list of closed trades
    account_balance,  \* risk_manager.account_balance
    daily_pnl,        \* risk_manager.daily_pnl
    opened,           \* the number of trade objects created so far
    result,           \* what the last call of a robot method returned
    frame,            \* the price data handed to an indicator or a strategy
    out,              \* what the last indicator or strategy call returned
    market,           \* the historical data the last trading cycle fetched
    cycles,           \* the number of trading cycles run so far
    is_running,       \* robot.is_running
    threads,          \* where each trading thread created by /start stands
    stopping,         \* the /stop requests between their test and stop_trading
    loop              \* where the trading thread stands inside its cycle

vars == <<robot, active_trades, trade_history, account_balance, daily_pnl,
          opened, result, frame, out, market, cycles,
          is_running, threads, stopping, loop>>

\* The variables of the market analysis, which the trade handlers leave alone.
analysis == <<frame, out, market, cycles>>

\* The variables of the trading loop and of the requests that start and stop
\* it.
control == <<is_running, threads, stopping, loop>>

\* The trading thread between two cycles: copy is the list monitor_trades
\* iterates over, i its position in it, trade the dict execute_trade has
\* built and not yet appended.
NoCycle == [pc |-> "idle", copy |-> <<>>, i |-> 0, trade |-> <<>>]

\* No trading loop has been started.
Idle ==
    /\ is_running = FALSE
    /\ threads = <<>>
    /\ stopping = 0
    /\ loop = NoCycle

----------------------------------------------------------------------------
\* The price feed and the signals handed to execute_trade.

\* get_real_time_price: 0 when no price is available, else the market price.
FeedPrices == {Zero, R(1, 1), R(2, 1)}

Sig(type, entry, stop, take, conf, strat) ==
    [symbol |-> "EURUSD", strategy |-> strat, signal |-> type,
     entry_price |-> entry, stop_loss |-> stop, take_profit |-> take,
     confidence |-> conf]

\* Signals as the strategies and the manual-trade handler build them: symbol
\* and strategy are always present (analyze_market and manual_trade set them).
BuyCapped    == Sig("BUY", R(1, 1), R(9, 10), R(2, 1), R(7, 10), "Trend Following")
SellCapped   == Sig("SELL", R(15, 10), R(16, 10), R(1, 1), R(8, 10), "Mean Reversion")
BuyNoTake    == Sig("BUY", R(15, 10), R(1, 1), None, R(6, 10), "Manual")
BuyOffMarket == Sig("BUY", R(12, 1), R(119, 10), R(1, 1), R(1, 1), "Manual")
ZeroRisk     == Sig("SELL", R(15, 10), R(15, 10), None, R(1, 1), "Manual")
LowConf      == Sig("BUY", R(15, 10), R(14, 10), R(2, 1), R(5, 10), "Manual")
HoldSignal   ==
    [symbol |-> "EURUSD", strategy |-> "Breakout", signal |-> "HOLD",
     confidence |-> Zero, reason |-> "No breakout signal"]
NoConfidence ==
    [symbol |-> "GBPUSD", strategy |-> "Manual", signal |-> "SELL",
     entry_price |-> R(15, 10), stop_loss |-> R(2, 1)]

Signals == {BuyCapped, SellCapped, BuyNoTake, BuyOffMarket, ZeroRisk, LowConf,
            HoldSignal, NoConfidence}

Range(seq) == {seq[i] : i \in DOMAIN seq}

\* dict.get(key, default)
Get(d, key, default) == IF key \in DOMAIN d THEN d[key] ELSE default

----------------------------------------------------------------------------
\* RiskManager / SimpleRiskManager.

\* calculate_position_size without the cap of 10% of the balance.
calculate_position_size_uncapped(entry_price, stop_loss) ==
    LET risk_amount == RMul(account_balance, max_risk_per_trade)
        price_diff  == RAbs(RSub(entry_price, stop_loss))
    IN  IF price_diff = Zero
        THEN Zero
        ELSE RDiv(risk_amount, price_diff)

calculate_position_size(entry_price, stop_loss) ==
    LET risk_amount == RMul(account_balance, max_risk_per_trade)
        price_diff  == RAbs(RSub(entry_price, stop_loss))
    IN  IF price_diff = Zero
        THEN Zero
        ELSE RMin(RDiv(risk_amount, price_diff),
                  RMul(account_balance, MaxPositionFraction))

\* validate_trade with the confidence test moved before the field test.
validate_log_confidence_first(signal) ==
    IF RLe(daily_pnl, RNeg(RMul(account_balance, max_daily_loss)))
    THEN "Daily loss limit reached"
    ELSE IF RLt(Get(signal, "confidence", Zero), MinConfidence)
    THEN "Signal confidence too low"
    ELSE IF ~({"signal", "entry_price", "stop_loss"} \subseteq DOMAIN signal)
    THEN "Signal missing required fields"
    ELSE "OK"

\* The branch validate_trade leaves by, named after the message it logs.
validate_log(signal) ==
    IF RLe(daily_pnl, RNeg(RMul(account_balance, max_daily_loss)))
    THEN "Daily loss limit reached"
    ELSE IF ~({"signal", "entry_price", "stop_loss"} \subseteq DOMAIN signal)
    THEN "Signal missing required fields"
    ELSE IF RLt(Get(signal, "confidence", Zero), MinConfidence)
    THEN "Signal confidence too low"
    ELSE "OK"

validate_trade(signal) == validate_log(signal) = "OK"

----------------------------------------------------------------------------
\* The ledger: active_trades, trade_history and the risk manager's totals,
\* as one value the handlers transform.

Ledger ==
    [active |-> active_trades, history |-> trade_history,
     balance |-> account_balance, daily |-> daily_pnl]

\* 'id' of the next trade.
next_id ==
    IF robot = "ForexTradingRobot"
    THEN Len(trade_history) + 1
    ELSE Len(trade_history) + Len(active_trades) + 1

\* The trade dict execute_trade builds; obj stands for the identity of the
\* Python object.
new_trade(signal, position_size) ==
    [obj |-> opened + 1,
     id |-> next_id,
     symbol |-> signal.symbol,
     strategy |-> signal.strategy,
     signal_type |-> signal.signal,
     entry_price |-> signal.entry_price,
     stop_loss |-> signal.stop_loss,
     take_profit |-> Get(signal, "take_profit", None),
     position_size |-> position_size,
     status |-> "OPEN"]

\* The pnl with a SELL trade computed like a BUY trade.
trade_pnl_sell_as_buy(trade, exit_price) ==
    RMul(RSub(exit_price, trade.entry_price), trade.position_size)

trade_pnl(trade, exit_price) ==
    IF trade.signal_type = "BUY"
    THEN RMul(RSub(exit_price, trade.entry_price), trade.position_size)
    ELSE RMul(RSub(trade.entry_price, exit_price), trade.position_size)

closed_trade(trade, exit_price, reason) ==
    [obj |-> trade.obj,
     id |-> trade.id,
     symbol |-> trade.symbol,
     strategy |-> trade.strategy,
     signal_type |-> trade.signal_type,
     entry_price |-> trade.entry_price,
     stop_loss |-> trade.stop_loss,
     take_profit |-> trade.take_profit,
     position_size |-> trade.position_size,
     exit_price |-> exit_price,
     pnl |-> trade_pnl(trade, exit_price),
     status |-> "CLOSED",
     close_reason |-> reason]

\* list.remove(trade): the trade was changed in place before it is removed,
\* so the element that equals it is the object itself.
remove_trade(active, trade) == SelectSeq(active, LAMBDA t : t.obj # trade.obj)

\* close_trade without the line that adds pnl to daily_pnl.
close_trade_daily_pnl_forgotten(L, trade, exit_price, reason) ==
    LET pnl == trade_pnl(trade, exit_price)
    IN  [active  |-> remove_trade(L.active, trade),
         history |-> Append(L.history, closed_trade(trade, exit_price, reason)),
         balance |-> RAdd(L.balance, pnl),
         daily   |-> L.daily]

\* close_trade without the removal from active_trades.
close_trade_left_open(L, trade, exit_price, reason) ==
    LET pnl == trade_pnl(trade, exit_price)
    IN  [active  |-> L.active,
         history |-> Append(L.history, closed_trade(trade, exit_price, reason)),
         balance |-> RAdd(L.balance, pnl),
         daily   |-> RAdd(L.daily, pnl)]

\* close_trade with the closed trade put at the front of trade_history.
close_trade_history_prepended(L, trade, exit_price, reason) ==
    LET pnl == trade_pnl(trade, exit_price)
    IN  [active  |-> remove_trade(L.active, trade),
         history |-> <<closed_trade(trade, exit_price, reason)>> \o L.history,
         balance |-> RAdd(L.balance, pnl),
         daily   |-> RAdd(L.daily, pnl)]

close_trade(L, trade, exit_price, reason) ==
    LET pnl == trade_pnl(trade, exit_price)
    IN  [active  |-> remove_trade(L.active, trade),
         history |-> Append(L.history, closed_trade(trade, exit_price, reason)),
         balance |-> RAdd(L.balance, pnl),
         daily   |-> RAdd(L.daily, pnl)]

\* Python truth value of trade['take_profit']: None and 0 are false.
Truthy(x) == x[1] # 0

\* The stop-loss test with strict comparisons.
stop_loss_hit_strict(trade, current_price) ==
    \/ trade.signal_type = "BUY" /\ RLt(current_price, trade.stop_loss)
    \/ trade.signal_type = "SELL" /\ RLt(trade.stop_loss, current_price)

stop_loss_hit(trade, current_price) ==
    \/ trade.signal_type = "BUY" /\ RLe(current_price, trade.stop_loss)
    \/ trade.signal_type = "SELL" /\ RLe(trade.stop_loss, current_price)

\* The take-profit test with the sides of BUY and SELL exchanged.
take_profit_hit_sides_swapped(trade, current_price) ==
    /\ Truthy(trade.take_profit)
    /\ \/ trade.signal_type = "BUY" /\ RLe(current_price, trade.take_profit)
       \/ trade.signal_type = "SELL" /\ RLe(trade.take_profit, current_price)

take_profit_hit(trade, current_price) ==
    /\ Truthy(trade.take_profit)
    /\ \/ trade.signal_type = "BUY" /\ RLe(trade.take_profit, current_price)
       \/ trade.signal_type = "SELL" /\ RLe(current_price, trade.take_profit)

\* The loop body without the test for an unavailable price: 0 is compared
\* with the stop and the take profit like a market price.
exit_reason_zero_as_price(trade, current_price) ==
    IF stop_loss_hit(trade, current_price) THEN "STOP_LOSS"
    ELSE IF take_profit_hit(trade, current_price) THEN "TAKE_PROFIT"
    ELSE "KEEP"

\* The loop body with the take-profit test made before the stop-loss test.
exit_reason_take_profit_first(trade, current_price) ==
    IF current_price = Zero THEN "SKIP"
    ELSE IF take_profit_hit(trade, current_price) THEN "TAKE_PROFIT"
    ELSE IF stop_loss_hit(trade, current_price) THEN "STOP_LOSS"
    ELSE "KEEP"

\* What one pass of monitor_trades' loop body decides for a trade.
exit_reason(trade, current_price) ==
    IF current_price = Zero THEN "SKIP"
    ELSE IF stop_loss_hit(trade, current_price) THEN "STOP_LOSS"
    ELSE IF take_profit_hit(trade, current_price) THEN "TAKE_PROFIT"
    ELSE "KEEP"

monitor_one(L, trade, current_price) ==
    LET reason == exit_reason(trade, current_price)
    IN  IF reason \in {"STOP_LOSS", "TAKE_PROFIT"}
        THEN close_trade(L, trade, current_price, reason)
        ELSE L

\* for trade in self.active_trades[:] -- copy is the list as it was at entry,
\* prices[i] the price fetched for its i-th trade.
RECURSIVE monitor_loop(_, _, _, _)
monitor_loop(L, copy, prices, i) ==
    IF i > Len(copy)
    THEN L
    ELSE monitor_loop(monitor_one(L, copy[i], prices[i]), copy, prices, i + 1)

SetLedger(L) ==
    /\ active_trades' = L.active
    /\ trade_history' = L.history
    /\ account_balance' = L.balance
    /\ daily_pnl' = L.daily

----------------------------------------------------------------------------
\* The handlers.

\* execute_trade without the test of the position size.
execute_trade_size_unchecked(signal) ==
    LET log  == validate_log(signal)
        size == calculate_position_size(signal.entry_price, signal.stop_loss)
    IN  IF log # "OK"
        THEN /\ result' = "False"
             /\ UNCHANGED <<robot, active_trades, trade_history,
                            account_balance, daily_pnl, opened>>
        ELSE /\ opened < MaxTrades
             /\ result' = "True"
             /\ opened' = opened + 1
             /\ active_trades' = Append(active_trades, new_trade(signal, size))
             /\ UNCHANGED <<robot, trade_history, account_balance, daily_pnl>>

\* execute_trade with the risk amount of an opened trade taken off the balance.
execute_trade_risk_reserved(signal) ==
    LET log  == validate_log(signal)
        size == calculate_position_size(signal.entry_price, signal.stop_loss)
    IN  IF log # "OK"
        THEN /\ result' = "False"
             /\ UNCHANGED <<robot, active_trades, trade_history,
                            account_balance, daily_pnl, opened>>
        ELSE IF RLe(size, Zero)
        THEN /\ result' = "False"
             /\ UNCHANGED <<robot, active_trades, trade_history,
                            account_balance, daily_pnl, opened>>
        ELSE /\ opened < MaxTrades
             /\ result' = "True"
             /\ opened' = opened + 1
             /\ active_trades' = Append(active_trades, new_trade(signal, size))
             /\ account_balance' =
                    RSub(account_balance, RMul(account_balance, max_risk_per_trade))
             /\ UNCHANGED <<robot, trade_history, daily_pnl>>

execute_trade(signal) ==
    LET log  == validate_log(signal)
        size == calculate_position_size(signal.entry_price, signal.stop_loss)
    IN  IF log # "OK"
        THEN /\ result' = "False"
             /\ UNCHANGED <<robot, active_trades, trade_history,
                            account_balance, daily_pnl, opened>>
        ELSE IF RLe(size, Zero)
        THEN /\ result' = "False"
             /\ UNCHANGED <<robot, active_trades, trade_history,
                            account_balance, daily_pnl, opened>>
        ELSE /\ opened < MaxTrades
             /\ result' = "True"
             /\ opened' = opened + 1
             /\ active_trades' = Append(active_trades, new_trade(signal, size))
             /\ UNCHANGED <<robot, trade_history, account_balance, daily_pnl>>

monitor_trades(prices) ==
    /\ SetLedger(monitor_loop(Ledger, active_trades, prices, 1))
    /\ result' = "None"
    /\ UNCHANGED <<robot, opened>>

\* The status with the price 0 taken for a market price.
close_trade_manual_status_zero_as_price(trade_id, current_price) ==
    IF \A i \in DOMAIN active_trades : active_trades[i].id # trade_id
    THEN 404
    ELSE 200

\* The HTTP status POST /close-trade/<trade_id> answers with: 404 when no
\* open trade has the id, 500 when no price is available, else 200.
close_trade_manual_status(trade_id, current_price) ==
    IF \A i \in DOMAIN active_trades : active_trades[i].id # trade_id
    THEN 404
    ELSE IF current_price = Zero THEN 500
    ELSE 200

\* POST /close-trade/<trade_id> of the web application, which drives the
\* simple robot; current_price is what get_real_time_price returns.
close_trade_manual(trade_id, current_price) ==
    /\ robot = "SimpleForexTradingRobot"
    /\ IF close_trade_manual_status(trade_id, current_price) = 200
       THEN LET found == {i \in 1..Len(active_trades) :
                             active_trades[i].id = trade_id}
                first == CHOOSE i \in found : \A j \in found : i <= j
            IN  /\ SetLedger(close_trade(Ledger, active_trades[first],
                                         current_price, "MANUAL_CLOSE"))
                /\ result' = "None"
       ELSE UNCHANGED <<active_trades, trade_history, account_balance,
                        daily_pnl, result>>
    /\ UNCHANGED <<robot, opened>>

TradeIds == 1..(MaxTrades + 1)

Init ==
    /\ robot \in Robots
    /\ active_trades = <<>>
    /\ trade_history = <<>>
    /\ account_balance = StartingBalance
    /\ daily_pnl = Zero
    /\ opened = 0
    /\ result = "None"
    /\ frame = <<>>
    /\ out = <<>>
    /\ market = <<>>
    /\ cycles = 0
    /\ Idle

ExecuteTrade ==
    /\ \E signal \in Signals : execute_trade(signal)
    /\ UNCHANGED <<analysis, control>>

MonitorTrades ==
    /\ \E prices \in [1..Len(active_trades) -> FeedPrices] : monitor_trades(prices)
    /\ UNCHANGED <<analysis, control>>

CloseTradeManual ==
    /\ \E trade_id \in TradeIds, current_price \in FeedPrices :
          close_trade_manual(trade_id, current_price)
    /\ UNCHANGED <<analysis, control>>

Next == ExecuteTrade \/ MonitorTrades \/ CloseTradeManual

Spec == Init /\ [][Next]_vars

----------------------------------------------------------------------------
\* Price data: the DataFrame get_historical_data returns, as its number of
\* rows and its columns.

\* The longest price series the analysis is given.
MaxLen == 31

\* The float nan: every comparison with it is false.
NaN == <<1, 0>>

FLt(a, b) == a # NaN /\ b # NaN /\ RLt(a, b)
FLe(a, b) == a # NaN /\ b # NaN /\ RLe(a, b)

\* len(series), without computing the values of the series.
Size(series) == Cardinality(DOMAIN series)

DataFrame(index, columns) == [index |-> index, columns |-> columns]

\* pd.DataFrame(): no rows, no columns.
EmptyFrame == DataFrame(0, <<>>)

len(data) == data.index

empty(data) == data.index = 0 \/ DOMAIN data.columns = {}

\* Closes of n bars: a on all bars but the last two, then b, then c.
Closes(n, a, b, c) ==
    [i \in 1..n |-> IF i = n THEN c ELSE IF i = n - 1 THEN b ELSE a]

\* The series s with its last value replaced by that of the bar before.
Stale(s) ==
    [i \in 1..Size(s) |-> IF i = Size(s) /\ i > 1 THEN s[i - 1] ELSE s[i]]

\* The series s scaled by the factor f.
Scaled(s, f) == [i \in 1..Size(s) |-> RMul(s[i], f)]

\* The bars of a frame: "exact" bars have High = Low = Close, "wide" bars have
\* High 10% above and Low 10% below the close, a "stale" last bar still has
\* the High and Low of the bar before, and a "close_only" frame has no High
\* and Low columns.
Bars == {"exact", "wide", "stale", "close_only"}

Frame(n, a, b, c, bars) ==
    LET close == Closes(n, a, b, c)
    IN  IF n = 0 THEN EmptyFrame
        ELSE IF bars = "close_only" THEN DataFrame(n, [Close |-> close])
        ELSE IF bars = "stale"
        THEN DataFrame(n, [Close |-> close, High |-> Stale(close), Low |-> Stale(close)])
        ELSE IF bars = "wide"
        THEN DataFrame(n, [Close |-> close, High |-> Scaled(close, R(11, 10)),
                           Low |-> Scaled(close, R(9, 10))])
        ELSE DataFrame(n, [Close |-> close, High |-> close, Low |-> close])

\* The price levels of the series.
Levels == {R(1, 1), R(2, 1), R(3, 1)}

Frames ==
    {Frame(n, a, b, c, bars) :
        n \in 0..MaxLen, a \in Levels, b \in Levels, c \in Levels, bars \in Bars}

----------------------------------------------------------------------------
\* TechnicalIndicators (pandas). A Series is modelled by the function from
\* its positions to its values.

RECURSIVE Sum(_, _, _)
Sum(s, lo, hi) == IF lo > hi THEN Zero ELSE RAdd(s[lo], Sum(s, lo + 1, hi))

Mean(s, lo, hi) == RDiv(Sum(s, lo, hi), R(hi - lo + 1, 1))

\* data.rolling(window=period).mean(): nan until period values are there.
sma(data, period) ==
    [i \in 1..Size(data) |->
        IF i < period THEN NaN ELSE Mean(data, i - period + 1, i)]

\* data.rolling(window=period).std() squared: the sample variance.
rolling_var(data, period) ==
    [i \in 1..Size(data) |->
        IF i < period THEN NaN
        ELSE LET m  == Mean(data, i - period + 1, i)
                 sq == [k \in 1..Size(data) |->
                           RMul(RSub(data[k], m), RSub(data[k], m))]
             IN  RDiv(Sum(sq, i - period + 1, i), R(period - 1, 1))]

\* data.diff(): nan at the first position.
diff(data) ==
    [i \in 1..Size(data) |-> IF i = 1 THEN NaN ELSE RSub(data[i], data[i - 1])]

\* delta.where(delta > 0, 0) and -delta.where(delta < 0, 0)
gain_of(delta) ==
    [i \in DOMAIN delta |-> IF FLt(Zero, delta[i]) THEN delta[i] ELSE Zero]
loss_of(delta) ==
    [i \in DOMAIN delta |-> IF FLt(delta[i], Zero) THEN RNeg(delta[i]) ELSE Zero]

\* 100 - 100 / (1 + gain / loss) in float arithmetic: gain / 0 is inf for a
\* positive gain, which gives 100, and 0 / 0 is nan.
rsi_value(gain, loss) ==
    IF gain = NaN \/ loss = NaN THEN NaN
    ELSE IF loss = Zero THEN (IF gain = Zero THEN NaN ELSE R(100, 1))
    ELSE RSub(R(100, 1), RDiv(R(100, 1), RAdd(R(1, 1), RDiv(gain, loss))))

rsi(data, period) ==
    LET delta == diff(data)
        gain  == sma(gain_of(delta), period)
        loss  == sma(loss_of(delta), period)
    IN  [i \in 1..Size(data) |-> rsi_value(gain[i], loss[i])]

\* bollinger_bands: the middle band and the squared distance of the outer
\* bands from it, (std * std_dev)^2; the square root is not taken, prices are
\* compared with the bands through the squares.
bollinger_bands(data, period, std_dev) ==
    [middle |-> sma(data, period),
     width2 |-> [i \in 1..Size(data) |->
                   IF i < period THEN NaN
                   ELSE RMul(R(std_dev * std_dev, 1), rolling_var(data, period)[i])]]

\* price < middle - sqrt(width2)
below_lower(price, middle, width2) ==
    /\ middle # NaN /\ width2 # NaN
    /\ RLt(price, middle)
    /\ RLt(width2, RMul(RSub(middle, price), RSub(middle, price)))

\* price > middle + sqrt(width2)
above_upper(price, middle, width2) ==
    /\ middle # NaN /\ width2 # NaN
    /\ RLt(middle, price)
    /\ RLt(width2, RMul(RSub(price, middle), RSub(price, middle)))

----------------------------------------------------------------------------
\* The strategies of src/trading_engine.py. generate_signal returns a signal
\* dict, or raises KeyError when the frame lacks a column it reads.

Hold(reason) == [signal |-> "HOLD", confidence |-> Zero, reason |-> reason]

KeyError(column) == [raised |-> "KeyError", column |-> column]

Raised(value) == "raised" \in DOMAIN value

HasColumn(data, column) == column \in DOMAIN data.columns

\* series.iloc[-k]
iloc(series, k) == series[Size(series) - k + 1]

RECURSIVE Max(_, _, _)
Max(s, lo, hi) ==
    IF lo = hi THEN s[lo]
    ELSE LET m == Max(s, lo + 1, hi) IN IF RLt(s[lo], m) THEN m ELSE s[lo]

RECURSIVE Min(_, _, _)
Min(s, lo, hi) ==
    IF lo = hi THEN s[lo]
    ELSE LET m == Min(s, lo + 1, hi) IN IF RLt(m, s[lo]) THEN m ELSE s[lo]

short_ma_period == 10
long_ma_period == 30
rsi_period == 14
bb_period == 20
rsi_oversold == R(30, 1)
rsi_overbought == R(70, 1)
lookback_period == 20

\* Trend following with the stop of a SELL signal put below the entry.
TrendFollowing_generate_signal_sell_stop_below(data) ==
    IF len(data) < long_ma_period THEN Hold("Insufficient data")
    ELSE IF ~HasColumn(data, "Close") THEN KeyError("Close")
    ELSE
    LET close_prices  == data.columns.Close
        short_ma      == sma(close_prices, short_ma_period)
        long_ma       == sma(close_prices, long_ma_period)
        current_short == iloc(short_ma, 1)
        current_long  == iloc(long_ma, 1)
        prev_short    == iloc(short_ma, 2)
        prev_long     == iloc(long_ma, 2)
        last          == iloc(close_prices, 1)
    IN  IF FLe(prev_short, prev_long) /\ FLt(current_long, current_short)
        THEN [signal |-> "BUY", confidence |-> R(7, 10),
              reason |-> "Golden cross detected",
              entry_price |-> last,
              stop_loss |-> RMul(last, R(98, 100)),
              take_profit |-> RMul(last, R(104, 100))]
        ELSE IF FLe(prev_long, prev_short) /\ FLt(current_short, current_long)
        THEN [signal |-> "SELL", confidence |-> R(7, 10),
              reason |-> "Death cross detected",
              entry_price |-> last,
              stop_loss |-> RMul(last, R(98, 100)),
              take_profit |-> RMul(last, R(96, 100))]
        ELSE Hold("No clear trend signal")

TrendFollowing_generate_signal(data) ==
    IF len(data) < long_ma_period THEN Hold("Insufficient data")
    ELSE IF ~HasColumn(data, "Close") THEN KeyError("Close")
    ELSE
    LET close_prices  == data.columns.Close
        short_ma      == sma(close_prices, short_ma_period)
        long_ma       == sma(close_prices, long_ma_period)
        current_short == iloc(short_ma, 1)
        current_long  == iloc(long_ma, 1)
        prev_short    == iloc(short_ma, 2)
        prev_long     == iloc(long_ma, 2)
        last          == iloc(close_prices, 1)
    IN  IF FLe(prev_short, prev_long) /\ FLt(current_long, current_short)
        THEN [signal |-> "BUY", confidence |-> R(7, 10),
              reason |-> "Golden cross detected",
              entry_price |-> last,
              stop_loss |-> RMul(last, R(98, 100)),
              take_profit |-> RMul(last, R(104, 100))]
        ELSE IF FLe(prev_long, prev_short) /\ FLt(current_short, current_long)
        THEN [signal |-> "SELL", confidence |-> R(7, 10),
              reason |-> "Death cross detected",
              entry_price |-> last,
              stop_loss |-> RMul(last, R(102, 100)),
              take_profit |-> RMul(last, R(96, 100))]
        ELSE Hold("No clear trend signal")

MeanReversion_generate_signal(data) ==
    IF len(data) < (IF rsi_period > bb_period THEN rsi_period ELSE bb_period)
    THEN Hold("Insufficient data")
    ELSE IF ~HasColumn(data, "Close") THEN KeyError("Close")
    ELSE
    LET close_prices  == data.columns.Close
        bands         == bollinger_bands(close_prices, bb_period, 2)
        current_rsi   == iloc(rsi(close_prices, rsi_period), 1)
        current_price == iloc(close_prices, 1)
        middle        == iloc(bands.middle, 1)
        width2        == iloc(bands.width2, 1)
    IN  IF FLt(current_rsi, rsi_oversold)
           /\ below_lower(current_price, middle, width2)
        THEN [signal |-> "BUY", confidence |-> R(8, 10),
              reason |-> "Oversold, price below lower BB",
              entry_price |-> current_price,
              stop_loss |-> RMul(current_price, R(97, 100)),
              take_profit |-> middle]
        ELSE IF FLt(rsi_overbought, current_rsi)
                /\ above_upper(current_price, middle, width2)
        THEN [signal |-> "SELL", confidence |-> R(8, 10),
              reason |-> "Overbought, price above upper BB",
              entry_price |-> current_price,
              stop_loss |-> RMul(current_price, R(103, 100)),
              take_profit |-> middle]
        ELSE Hold("No mean reversion signal")

\* Breakout with resistance and support taken over the 20 bars before the
\* last bar.
Breakout_signal_window_before_last(data) ==
    IF ~HasColumn(data, "High") THEN KeyError("High")
    ELSE IF ~HasColumn(data, "Low") THEN KeyError("Low")
    ELSE IF ~HasColumn(data, "Close") THEN KeyError("Close")
    ELSE
    LET n             == len(data)
        first         == IF n > lookback_period THEN n - lookback_period ELSE 1
        resistance    == Max(data.columns.High, first, n - 1)
        support       == Min(data.columns.Low, first, n - 1)
        current_price == iloc(data.columns.Close, 1)
    IN  IF RLt(RMul(resistance, R(1001, 1000)), current_price)
        THEN [signal |-> "BUY", confidence |-> R(75, 100),
              reason |-> "Breakout above resistance",
              entry_price |-> current_price,
              stop_loss |-> RMul(resistance, R(999, 1000)),
              take_profit |-> RAdd(current_price,
                                   RMul(RSub(current_price, resistance), R(2, 1)))]
        ELSE IF RLt(current_price, RMul(support, R(999, 1000)))
        THEN [signal |-> "SELL", confidence |-> R(75, 100),
              reason |-> "Breakdown below support",
              entry_price |-> current_price,
              stop_loss |-> RMul(support, R(1001, 1000)),
              take_profit |-> RSub(current_price,
                                   RMul(RSub(support, current_price), R(2, 1)))]
        ELSE Hold("No breakout signal")

\* BreakoutStrategy.generate_signal past its test of the series' length.
Breakout_signal(data) ==
    IF ~HasColumn(data, "High") THEN KeyError("High")
    ELSE IF ~HasColumn(data, "Low") THEN KeyError("Low")
    ELSE IF ~HasColumn(data, "Close") THEN KeyError("Close")
    ELSE
    LET n             == len(data)
        first         == IF n > lookback_period THEN n - lookback_period + 1 ELSE 1
        resistance    == Max(data.columns.High, first, n)
        support       == Min(data.columns.Low, first, n)
        current_price == iloc(data.columns.Close, 1)
    IN  IF RLt(RMul(resistance, R(1001, 1000)), current_price)
        THEN [signal |-> "BUY", confidence |-> R(75, 100),
              reason |-> "Breakout above resistance",
              entry_price |-> current_price,
              stop_loss |-> RMul(resistance, R(999, 1000)),
              take_profit |-> RAdd(current_price,
                                   RMul(RSub(current_price, resistance), R(2, 1)))]
        ELSE IF RLt(current_price, RMul(support, R(999, 1000)))
        THEN [signal |-> "SELL", confidence |-> R(75, 100),
              reason |-> "Breakdown below support",
              entry_price |-> current_price,
              stop_loss |-> RMul(support, R(1001, 1000)),
              take_profit |-> RSub(current_price,
                                   RMul(RSub(support, current_price), R(2, 1)))]
        ELSE Hold("No breakout signal")

\* Breakout without the test of the series' length.
Breakout_generate_signal_no_length_test(data) == Breakout_signal(data)

Breakout_generate_signal(data) ==
    IF len(data) < lookback_period THEN Hold("Insufficient data")
    ELSE Breakout_signal(data)

\* self.strategies, in the order of the list.
Strategies == <<"Trend Following", "Mean Reversion", "Breakout">>

generate_signal(strategy, data) ==
    IF strategy = "Trend Following" THEN TrendFollowing_generate_signal(data)
    ELSE IF strategy = "Mean Reversion" THEN MeanReversion_generate_signal(data)
    ELSE Breakout_generate_signal(data)

----------------------------------------------------------------------------
\* SimpleTechnicalIndicators.rsi of src/trading_engine_simple.py, on a list.

simple_rsi(prices, period) ==
    IF Len(prices) < period + 1 THEN R(50, 1)
    ELSE
    LET change == [i \in 1..(Len(prices) - 1) |-> RSub(prices[i + 1], prices[i])]
        gains  == [i \in DOMAIN change |->
                      IF RLt(Zero, change[i]) THEN change[i] ELSE Zero]
        losses == [i \in DOMAIN change |->
                      IF RLt(Zero, change[i]) THEN Zero ELSE RAbs(change[i])]
        n      == Len(prices) - 1
    IN  IF n < period THEN R(50, 1)
        ELSE LET avg_gain == RDiv(Sum(gains, n - period + 1, n), R(period, 1))
                 avg_loss == RDiv(Sum(losses, n - period + 1, n), R(period, 1))
             IN  IF avg_loss = Zero THEN R(100, 1)
                 ELSE RSub(R(100, 1),
                           RDiv(R(100, 1), RAdd(R(1, 1), RDiv(avg_gain, avg_loss))))

\* The periods rsi is asked for: the strategies' 14 and a short one.
RsiPeriods == {3, rsi_period}

----------------------------------------------------------------------------
\* The indicators and the strategies applied to price data.

Pristine ==
    /\ robot = "ForexTradingRobot"
    /\ active_trades = <<>>
    /\ trade_history = <<>>
    /\ account_balance = StartingBalance
    /\ daily_pnl = Zero
    /\ opened = 0
    /\ result = "None"

ledger_vars == <<robot, active_trades, trade_history, account_balance,
                 daily_pnl, opened, result>>

InitSignals ==
    /\ Pristine
    /\ frame \in Frames
    /\ out = <<>>
    /\ market = <<>>
    /\ cycles = 0
    /\ Idle

GenerateSignal ==
    /\ out = <<>>
    /\ \E k \in DOMAIN Strategies :
          out' = [call |-> Strategies[k],
                  value |-> generate_signal(Strategies[k], frame)]
    /\ UNCHANGED <<ledger_vars, frame, market, cycles, control>>

\* rsi(...).iloc[-1] of a frame that has rows.
Rsi ==
    /\ out = <<>>
    /\ ~empty(frame)
    /\ \E period \in RsiPeriods :
          out' = [call |-> "TechnicalIndicators.rsi", period |-> period,
                  value |-> iloc(rsi(frame.columns.Close, period), 1)]
    /\ UNCHANGED <<ledger_vars, frame, market, cycles, control>>

SimpleRsi ==
    /\ out = <<>>
    /\ \E period \in RsiPeriods :
          out' = [call |-> "SimpleTechnicalIndicators.rsi", period |-> period,
                  value |-> simple_rsi(IF empty(frame) THEN <<>>
                                       ELSE frame.columns.Close, period)]
    /\ UNCHANGED <<ledger_vars, frame, market, cycles, control>>

NextSignals == GenerateSignal \/ Rsi \/ SimpleRsi

SpecSignals == InitSignals /\ [][NextSignals]_vars

----------------------------------------------------------------------------
\* The trading cycle of ForexTradingRobot: run_trading_cycle, with
\* analyze_market and execute_trade working on the ledger the cycle has built
\* so far.

\* The number of trading cycles of one behaviour.
MaxCycles == 2

\* ForexDataProvider.currency_pairs, the first two of its seven symbols.
currency_pairs == <<"EURUSD=X", "GBPUSD=X">>

\* Thirty closes of 1 and a last close of 2 under a stale last bar: a golden
\* cross, an overbought close above the upper band and a breakout.
Rally == Frame(MaxLen, R(1, 1), R(1, 1), R(2, 1), "stale")

\* The same closes in a frame that has no High and Low columns.
RallyNoBars == Frame(MaxLen, R(1, 1), R(1, 1), R(2, 1), "close_only")

\* Closes that never move.
Flat == Frame(MaxLen, R(1, 1), R(1, 1), R(1, 1), "exact")

\* What get_historical_data returns for a symbol in a cycle.
CycleFrames == {EmptyFrame, Flat, Rally, RallyNoBars}

\* What get_real_time_price returns for a symbol in a cycle.
CyclePrices == {Zero, R(1, 1)}

\* for strategy in self.strategies: the signals collected so far, or the
\* error a strategy raised, which leaves analyze_market.
RECURSIVE analyze_loop(_, _, _, _)
analyze_loop(symbol, data, signals, k) ==
    IF k > Len(Strategies)
    THEN [signals |-> signals]
    ELSE LET signal == generate_signal(Strategies[k], data)
         IN  IF Raised(signal)
             THEN signal
             ELSE analyze_loop(symbol, data,
                               Append(signals,
                                      [strategy |-> Strategies[k],
                                       symbol |-> symbol] @@ signal),
                               k + 1)

analyze_market(symbol, data) ==
    IF empty(data)
    THEN [signals |-> <<>>]
    ELSE analyze_loop(symbol, data, <<>>, 1)

\* The ledger with the number of trade objects created so far.
Book(L, n) ==
    [active |-> L.active, history |-> L.history, balance |-> L.balance,
     daily |-> L.daily, opened |-> n]

\* execute_trade on the ledger B: the ledger it leaves.
book_execute_trade(B, signal) ==
    LET valid ==
            /\ ~RLe(B.daily, RNeg(RMul(B.balance, max_daily_loss)))
            /\ {"signal", "entry_price", "stop_loss"} \subseteq DOMAIN signal
            /\ ~RLt(Get(signal, "confidence", Zero), MinConfidence)
        risk_amount == RMul(B.balance, max_risk_per_trade)
        price_diff  == RAbs(RSub(signal.entry_price, signal.stop_loss))
        position_size ==
            IF price_diff = Zero THEN Zero
            ELSE RMin(RDiv(risk_amount, price_diff),
                      RMul(B.balance, MaxPositionFraction))
        trade ==
            [obj |-> B.opened + 1,
             id |-> IF robot = "ForexTradingRobot"
                    THEN Len(B.history) + 1
                    ELSE Len(B.history) + Len(B.active) + 1,
             symbol |-> signal.symbol,
             strategy |-> signal.strategy,
             signal_type |-> signal.signal,
             entry_price |-> signal.entry_price,
             stop_loss |-> signal.stop_loss,
             take_profit |-> Get(signal, "take_profit", None),
             position_size |-> position_size,
             status |-> "OPEN"]
    IN  IF ~valid THEN B
        ELSE IF RLe(position_size, Zero) THEN B
        ELSE [B EXCEPT !.active = Append(@, trade), !.opened = @ + 1]

\* for signal in signals: BUY and SELL signals go to execute_trade.
RECURSIVE signal_loop(_, _, _)
signal_loop(B, signals, k) ==
    IF k > Len(signals) THEN B
    ELSE signal_loop(IF signals[k].signal \in {"BUY", "SELL"}
                     THEN book_execute_trade(B, signals[k])
                     ELSE B,
                     signals, k + 1)

\* for symbol in currency_pairs: the ledger at the end of the loop, the number
\* of symbols analyze_market was called for, and the error that left the loop.
RECURSIVE symbol_loop(_, _, _)
symbol_loop(B, data, k) ==
    IF k > Len(currency_pairs)
    THEN [book |-> B, analyzed |-> k - 1, error |-> "None"]
    ELSE LET analysis_of == analyze_market(currency_pairs[k], data[currency_pairs[k]])
         IN  IF Raised(analysis_of)
             THEN [book |-> B, analyzed |-> k, error |-> analysis_of.raised]
             ELSE symbol_loop(signal_loop(B, analysis_of.signals, 1), data, k + 1)

\* The prices monitor_trades fetches for the open trades.
quotes_of(quote) ==
    [i \in 1..Len(active_trades) |-> quote[active_trades[i].symbol]]

\* A cycle that opens the trades first and monitors last, the trades it has
\* just opened included.
run_trading_cycle_monitor_last(data, quote) ==
    \E end \in {symbol_loop(Book(Ledger, opened), data, 1)} :
    \E L \in {monitor_loop([active |-> end.book.active, history |-> end.book.history,
                            balance |-> end.book.balance, daily |-> end.book.daily],
                           end.book.active,
                           [i \in 1..Len(end.book.active) |->
                               quote[end.book.active[i].symbol]], 1)} :
        /\ SetLedger(L)
        /\ opened' = end.book.opened
        /\ result' = end.error
        /\ market' = [data |-> data, quote |-> quote, analyzed |-> end.analyzed]
        /\ cycles' = cycles + 1
        /\ UNCHANGED <<robot, frame, out>>

\* run_trading_cycle, and what start_trading's except clause logs when an
\* error leaves it. data and quote are what the data provider returns for
\* each symbol during the cycle.
trading_cycle(data, quote) ==
    \E end \in {symbol_loop(Book(monitor_loop(Ledger, active_trades,
                                              quotes_of(quote), 1), opened),
                            data, 1)} :
        /\ SetLedger(end.book)
        /\ opened' = end.book.opened
        /\ result' = end.error
        /\ market' = [data |-> data, quote |-> quote, analyzed |-> end.analyzed]
        /\ UNCHANGED <<robot, frame, out>>

\* One pass of start_trading's loop, counted.
run_trading_cycle(data, quote) ==
    /\ trading_cycle(data, quote)
    /\ cycles' = cycles + 1

Symbols == Range(currency_pairs)

InitCycle ==
    /\ Pristine
    /\ frame = <<>>
    /\ out = <<>>
    /\ market = <<>>
    /\ cycles = 0
    /\ Idle

RunTradingCycle ==
    /\ cycles < MaxCycles
    /\ \E data \in [Symbols -> CycleFrames], quote \in [Symbols -> CyclePrices] :
          run_trading_cycle(data, quote)
    /\ UNCHANGED control

NextCycle == RunTradingCycle

SpecCycle == InitCycle /\ [][NextCycle]_vars

----------------------------------------------------------------------------
\* POST /manual-trade of src/trading_simple.py, which drives the simple robot.
\* The request body is a JSON object; the fields float() is applied to are
\* JSON values: a number, a string or null.

Number(r) == [number |-> r]
String(s) == [string |-> s]
JsonNull == [null |-> TRUE]

\* The strings of the requests that float() parses.
FloatLiterals == ("1.5" :> R(15, 10)) @@ ("1.6" :> R(16, 10))

\* float(v) raises ValueError for a string that is no number and TypeError
\* for None.
float_raises(v) ==
    ~ \/ "number" \in DOMAIN v
      \/ "string" \in DOMAIN v /\ v.string \in DOMAIN FloatLiterals

float(v) == IF "number" \in DOMAIN v THEN v.number ELSE FloatLiterals[v.string]

\* Python truth value of a JSON value: 0, "" and None are false.
json_truthy(v) ==
    \/ "number" \in DOMAIN v /\ v.number # Zero
    \/ "string" \in DOMAIN v /\ v.string # ""

Request(symbol, signal, entry_price, stop_loss) ==
    [symbol |-> symbol, signal |-> signal, entry_price |-> entry_price,
     stop_loss |-> stop_loss]

\* The request bodies: well-formed ones, with numbers or with numeric strings,
\* one whose signal is neither BUY nor SELL, and ones that lack a field, carry
\* a string that is no number, or are empty.
Requests ==
    << [take_profit |-> Number(R(2, 1))]
           @@ Request("EURUSD", "BUY", Number(R(1, 1)), Number(R(9, 10))),
       [take_profit |-> Number(Zero), confidence |-> Number(R(8, 10))]
           @@ Request("GBPUSD", "SELL", String("1.5"), String("1.6")),
       Request("EURUSD", "HOLD", Number(R(1, 1)), Number(R(9, 10))),
       [confidence |-> Number(R(5, 10))]
           @@ Request("EURUSD", "BUY", Number(R(1, 1)), Number(R(9, 10))),
       Request("EURUSD", "BUY", String("abc"), Number(R(9, 10))),
       Request("EURUSD", "SELL", Number(R(1, 1)), JsonNull),
       [symbol |-> "EURUSD", signal |-> "BUY", entry_price |-> Number(R(1, 1))],
       <<>> >>

\* The signal dict manual_trade builds from a request that has the required
\* fields.
manual_trade_signal(data) ==
    [symbol |-> data.symbol,
     signal |-> data.signal,
     entry_price |-> float(data.entry_price),
     stop_loss |-> float(data.stop_loss),
     take_profit |-> IF "take_profit" \in DOMAIN data
                        /\ json_truthy(data.take_profit)
                     THEN float(data.take_profit)
                     ELSE None,
     confidence |-> IF "confidence" \in DOMAIN data
                    THEN float(data.confidence)
                    ELSE R(1, 1),
     strategy |-> "Manual",
     reason |-> "Manual trade execution"]

\* The error that ends manual_trade before it calls execute_trade, "None"
\* when there is none.
manual_trade_error(data) ==
    IF DOMAIN data = {}
    THEN "No data provided"
    ELSE IF ~({"symbol", "signal", "entry_price", "stop_loss"} \subseteq DOMAIN data)
    THEN "Missing required fields"
    ELSE IF \/ float_raises(data.entry_price)
            \/ float_raises(data.stop_loss)
            \/ /\ "take_profit" \in DOMAIN data
               /\ json_truthy(data.take_profit)
               /\ float_raises(data.take_profit)
            \/ "confidence" \in DOMAIN data /\ float_raises(data.confidence)
    THEN "could not convert to float"
    ELSE "None"

manual_trade(data) ==
    /\ robot = "SimpleForexTradingRobot"
    /\ IF manual_trade_error(data) # "None"
       THEN UNCHANGED ledger_vars
       ELSE execute_trade(manual_trade_signal(data))

InitManual ==
    /\ robot = "SimpleForexTradingRobot"
    /\ active_trades = <<>>
    /\ trade_history = <<>>
    /\ account_balance = StartingBalance
    /\ daily_pnl = Zero
    /\ opened = 0
    /\ result = "None"
    /\ frame = <<>>
    /\ out = <<>>
    /\ market = <<>>
    /\ cycles = 0
    /\ Idle

ManualTrade ==
    /\ \E k \in DOMAIN Requests : manual_trade(Requests[k])
    /\ UNCHANGED <<analysis, control>>

NextManual == ManualTrade \/ MonitorTrades \/ CloseTradeManual

SpecManual == InitManual /\ [][NextManual]_vars

----------------------------------------------------------------------------
\* The trades of the strategies: a strategy's signal for a symbol's data goes
\* to execute_trade as run_trading_cycle hands it over, and monitor_trades
\* watches the trade it opens.

\* Full-length price data of every shape.
SignalFrames ==
    {Frame(MaxLen, a, b, c, bars) :
        a \in Levels, b \in Levels, c \in Levels, bars \in Bars}

\* analyze_market's signal['strategy'] and signal['symbol'], then
\* run_trading_cycle's loop over the signals, which hands each BUY or SELL
\* signal to execute_trade once.
ExecuteSignal ==
    /\ out # <<>>
    /\ out.call \in Range(Strategies)
    /\ "executed" \notin DOMAIN out
    /\ ~Raised(out.value)
    /\ out.value.signal \in {"BUY", "SELL"}
    /\ execute_trade([strategy |-> out.call, symbol |-> currency_pairs[1]]
                     @@ out.value)
    /\ out' = [executed |-> TRUE] @@ out
    /\ UNCHANGED <<frame, market, cycles, control>>

\* What get_real_time_price returns while a strategy's trade is open.
StrategyPrices == FeedPrices \cup {R(5, 1)}

MonitorStrategyTrades ==
    /\ \E prices \in [1..Len(active_trades) -> StrategyPrices] :
          monitor_trades(prices)
    /\ UNCHANGED <<analysis, control>>

InitStrategyTrades ==
    /\ Pristine
    /\ frame \in SignalFrames
    /\ out = <<>>
    /\ market = <<>>
    /\ cycles = 0
    /\ Idle

NextStrategyTrades == GenerateSignal \/ ExecuteSignal \/ MonitorStrategyTrades

SpecStrategyTrades == InitStrategyTrades /\ [][NextStrategyTrades]_vars

----------------------------------------------------------------------------
\* The trading loop and the requests that start and stop it: POST /start and
\* POST /stop of src/trading_simple.py, and start_trading of the robot running
\* in the threads /start creates. start_trading, stop_trading and is_running
\* are the same statements in both robots; the cycle the loop runs here is
\* that of ForexTradingRobot. A thread is "created" until its
\* start_trading begins, then at the loop's test ("while"), in a trading cycle
\* ("cycle"), asleep after a cycle ("sleep_300") or after an error
\* ("sleep_60"), and "returned" when start_trading has returned.

\* The number of threads /start creates in one behaviour.
MaxThreads == 2

\* The number of /stop requests between their test and their call.
MaxStopping == 1

\* What get_historical_data returns for a symbol in a cycle of the loop: data
\* without a signal, and data on which a strategy raises.
LoopFrames == {Flat, RallyNoBars}

\* What get_real_time_price returns in a cycle of the loop.
LoopQuote == [symbol \in Symbols |-> R(1, 1)]

\* POST /start: 400 when the robot is running, else a new daemon thread whose
\* target is trading_robot.start_trading.
post_start ==
    /\ IF is_running
       THEN /\ result' = "400"
            /\ UNCHANGED threads
       ELSE /\ Len(threads) < MaxThreads
            /\ threads' = Append(threads, "created")
            /\ result' = "200"
    /\ UNCHANGED <<robot, active_trades, trade_history, account_balance,
                   daily_pnl, opened, analysis, is_running, stopping, loop>>

\* POST /stop up to its test: 400 when the robot is not running.
post_stop ==
    /\ IF ~is_running
       THEN /\ result' = "400"
            /\ UNCHANGED stopping
       ELSE /\ stopping < MaxStopping
            /\ stopping' = stopping + 1
            /\ UNCHANGED result
    /\ UNCHANGED <<robot, active_trades, trade_history, account_balance,
                   daily_pnl, opened, analysis, is_running, threads, loop>>

\* stop_trading, called by a /stop request that passed its test.
stop_trading ==
    /\ stopping > 0
    /\ is_running' = FALSE
    /\ stopping' = stopping - 1
    /\ result' = "200"
    /\ UNCHANGED <<robot, active_trades, trade_history, account_balance,
                   daily_pnl, opened, analysis, threads, loop>>

\* A loop that never tests is_running.
while_is_running_ignored(running) == "cycle"

\* Where a thread goes from the loop's test.
while_is_running(running) == IF running THEN "cycle" ELSE "returned"

\* Where a thread goes at the end of a cycle: time.sleep(300), or the except
\* clause's time.sleep(60) when an error left the cycle.
after_cycle(error) == IF error = "None" THEN "sleep_300" ELSE "sleep_60"

\* One step of the thread t in start_trading.
start_trading(t) ==
    IF threads[t] = "created"
    THEN /\ is_running' = TRUE
         /\ threads' = [threads EXCEPT ![t] = "while"]
         /\ UNCHANGED <<ledger_vars, analysis, stopping, loop>>
    ELSE IF threads[t] = "while"
    THEN /\ threads' = [threads EXCEPT ![t] = while_is_running(is_running)]
         /\ UNCHANGED <<ledger_vars, analysis, is_running, stopping, loop>>
    ELSE IF threads[t] = "cycle"
    THEN /\ \E data \in [Symbols -> LoopFrames] : trading_cycle(data, LoopQuote)
         /\ threads' = [threads EXCEPT ![t] = after_cycle(result')]
         /\ UNCHANGED <<cycles, is_running, stopping, loop>>
    ELSE /\ threads[t] \in {"sleep_300", "sleep_60"}
         /\ threads' = [threads EXCEPT ![t] = "while"]
         /\ UNCHANGED <<ledger_vars, analysis, is_running, stopping, loop>>

InitLoop ==
    /\ Pristine
    /\ frame = <<>>
    /\ out = <<>>
    /\ market = <<>>
    /\ cycles = 0
    /\ Idle

StartTrading == \E t \in DOMAIN threads : start_trading(t)

NextLoop == post_start \/ post_stop \/ stop_trading \/ StartTrading

SpecLoop == InitLoop /\ [][NextLoop]_vars

\* The positions of a thread in start_trading.
Positions == {"created", "while", "cycle", "sleep_300", "sleep_60", "returned"}

\* The thread t moves on. Only a step of start_trading(t) moves t, and
\* start_trading(t) can take a step whenever t has not returned (a sleep
\* ends, a cycle ends, the test and the first assignment do not block), so
\* fairness for this action is fairness for the steps of start_trading(t).
Advance(t) ==
    /\ t \in DOMAIN threads
    /\ threads[t] # "returned"
    /\ \E position \in Positions \ {threads[t]} :
          threads' = [threads EXCEPT ![t] = position]

\* A thread the operating system runs keeps running: every thread that has
\* not returned eventually takes its next step, and a /stop request that
\* passed its test reaches its call of stop_trading.
FairLoop ==
    /\ \A t \in 1..MaxThreads : WF_threads(Advance(t))
    /\ WF_vars(stop_trading)

SpecLoopFair == SpecLoop /\ FairLoop

----------------------------------------------------------------------------
\* The trading thread and the request handlers on one ledger: the cycle of
\* SimpleForexTradingRobot taken statement by statement (the copy
\* monitor_trades makes, each pass of its loop, execute_trade's trade dict and
\* its append), with POST /manual-trade and POST /close-trade served by other
\* threads in between. Nothing in src/ holds a lock.

\* close_trade for a trade of monitor_trades' copy. The dict is the object the
\* ledger holds: when another thread has closed the trade in the meantime,
\* its fields are overwritten where it lies in trade_history, pnl is added
\* again, and active_trades.remove raises ValueError.
close_trade_of_copy(L, trade, exit_price, reason) ==
    IF \E k \in DOMAIN L.active : L.active[k].obj = trade.obj
    THEN [raised |-> "None"] @@ close_trade(L, trade, exit_price, reason)
    ELSE [raised  |-> "ValueError",
          active  |-> L.active,
          history |-> [k \in DOMAIN L.history |->
                          IF L.history[k].obj = trade.obj
                          THEN closed_trade(trade, exit_price, reason)
                          ELSE L.history[k]],
          balance |-> RAdd(L.balance, trade_pnl(trade, exit_price)),
          daily   |-> RAdd(L.daily, trade_pnl(trade, exit_price))]

\* for trade in self.active_trades[:] -- the copy is made.
monitor_trades_copy ==
    /\ loop.pc = "idle"
    /\ loop' = [pc |-> "monitor", copy |-> active_trades, i |-> 1, trade |-> <<>>]
    /\ UNCHANGED <<ledger_vars, analysis, is_running, threads, stopping>>

\* One pass of monitor_trades' loop, or its end. An error that leaves
\* close_trade leaves the cycle and is logged by start_trading.
monitor_trades_pass(current_price) ==
    /\ loop.pc = "monitor"
    /\ IF loop.i > Len(loop.copy)
       THEN /\ loop' = [loop EXCEPT !.pc = "analyze"]
            /\ UNCHANGED ledger_vars
       ELSE IF exit_reason(loop.copy[loop.i], current_price)
                  \notin {"STOP_LOSS", "TAKE_PROFIT"}
       THEN /\ loop' = [loop EXCEPT !.i = @ + 1]
            /\ UNCHANGED ledger_vars
       ELSE \E closed \in {close_trade_of_copy(
                                Ledger, loop.copy[loop.i], current_price,
                                exit_reason(loop.copy[loop.i], current_price))} :
               /\ SetLedger(closed)
               /\ result' = closed.raised
               /\ loop' = IF closed.raised = "None"
                          THEN [loop EXCEPT !.i = @ + 1]
                          ELSE NoCycle
               /\ UNCHANGED <<robot, opened>>
    /\ UNCHANGED <<analysis, is_running, threads, stopping>>

\* execute_trade up to the trade dict, whose id is computed from the lengths
\* of the two lists as they are now.
execute_trade_dict(signal) ==
    /\ loop.pc = "analyze"
    /\ IF validate_log(signal) # "OK"
          \/ RLe(calculate_position_size(signal.entry_price, signal.stop_loss), Zero)
       THEN /\ result' = "False"
            /\ loop' = NoCycle
       ELSE /\ opened < MaxTrades
            /\ loop' = [loop EXCEPT
                           !.pc = "append",
                           !.trade = new_trade(signal,
                                         calculate_position_size(
                                             signal.entry_price, signal.stop_loss))]
            /\ UNCHANGED result
    /\ UNCHANGED <<robot, active_trades, trade_history, account_balance,
                   daily_pnl, opened, analysis, is_running, threads, stopping>>

\* self.active_trades.append(trade), which ends the cycle's work here.
execute_trade_append ==
    /\ loop.pc = "append"
    /\ active_trades' = Append(active_trades, [loop.trade EXCEPT !.obj = opened + 1])
    /\ opened' = opened + 1
    /\ result' = "True"
    /\ loop' = NoCycle
    /\ UNCHANGED <<robot, trade_history, account_balance, daily_pnl,
                   analysis, is_running, threads, stopping>>

\* What get_real_time_price returns while the threads interleave.
RacePrices == {R(1, 1), R(2, 1)}

MonitorTradesPass == \E current_price \in RacePrices : monitor_trades_pass(current_price)

\* The signal of the cycle.
ExecuteTradeDict == execute_trade_dict(BuyCapped)

\* POST /manual-trade with a well-formed request.
ManualTradeRequest ==
    /\ manual_trade(Requests[1])
    /\ UNCHANGED <<analysis, control>>

\* POST /close-trade/<trade_id>.
CloseTradeRequest ==
    /\ \E trade_id \in TradeIds, current_price \in RacePrices :
          close_trade_manual(trade_id, current_price)
    /\ UNCHANGED <<analysis, control>>

NextRace ==
    \/ monitor_trades_copy
    \/ MonitorTradesPass
    \/ ExecuteTradeDict
    \/ execute_trade_append
    \/ ManualTradeRequest
    \/ CloseTradeRequest

SpecRace == InitManual /\ [][NextRace]_vars

----------------------------------------------------------------------------
\* get_performance_stats, which is the same in both robots.

\* round(x, 2): the nearest multiple of 1/100, a tie going to the even one.
round2(x) ==
    LET scaled == 100 * x[1]
        q      == scaled \div x[2]
        r      == scaled - q * x[2]
    IN  IF 2 * r < x[2] THEN R(q, 100)
        ELSE IF 2 * r > x[2] THEN R(q + 1, 100)
        ELSE IF q % 2 = 0 THEN R(q, 100)
        ELSE R(q + 1, 100)

\* get_performance_stats with a trade of pnl 0 counted as winning.
get_performance_stats_zero_pnl_wins ==
    IF trade_history = <<>>
    THEN [message |-> "No trades executed yet"]
    ELSE LET total_trades   == Len(trade_history)
             winning_trades ==
                 Cardinality({i \in DOMAIN trade_history :
                                 RLe(Zero, trade_history[i].pnl)})
             pnl            == [i \in DOMAIN trade_history |-> trade_history[i].pnl]
         IN  [total_trades    |-> total_trades,
              winning_trades  |-> winning_trades,
              losing_trades   |-> total_trades - winning_trades,
              win_rate        |-> round2(R(winning_trades * 100, total_trades)),
              total_pnl       |-> round2(Sum(pnl, 1, total_trades)),
              account_balance |-> round2(account_balance),
              active_trades   |-> Len(active_trades)]

get_performance_stats ==
    IF trade_history = <<>>
    THEN [message |-> "No trades executed yet"]
    ELSE LET total_trades   == Len(trade_history)
             winning_trades ==
                 Cardinality({i \in DOMAIN trade_history :
                                 RLt(Zero, trade_history[i].pnl)})
             pnl            == [i \in DOMAIN trade_history |-> trade_history[i].pnl]
         IN  [total_trades    |-> total_trades,
              winning_trades  |-> winning_trades,
              losing_trades   |-> total_trades - winning_trades,
              win_rate        |-> round2(R(winning_trades * 100, total_trades)),
              total_pnl       |-> round2(Sum(pnl, 1, total_trades)),
              account_balance |-> round2(account_balance),
              active_trades   |-> Len(active_trades)]

----------------------------------------------------------------------------
\* Vocabulary of the properties.

RECURSIVE SumPnl(_)
SumPnl(history) ==
    IF history = <<>> THEN Zero
    ELSE RAdd(SumPnl(SubSeq(history, 1, Len(history) - 1)),
              history[Len(history)].pnl)

AllTrades == Range(active_trades) \cup Range(trade_history)

\* The entries a step appended to trade_history.
NewlyClosed == {trade_history'[j] : j \in (Len(trade_history) + 1)..Len(trade_history')}

BreakerTripped ==
    RLe(daily_pnl, RNeg(RMul(account_balance, R(5, 100))))

----------------------------------------------------------------------------
\* C1: in every reachable state the account balance minus the starting
\* balance of 10000 equals daily_pnl, and both equal the sum of the pnl of
\* the trades in trade_history: each closed trade's P/L was booked exactly
\* once and nothing else moved the balance.
C1_BalanceIsSumOfClosedPnl ==
    /\ RSub(account_balance, R(10000, 1)) = daily_pnl
    /\ daily_pnl = SumPnl(trade_history)

\* Two trades were closed, with different non-zero results, one of them by a
\* manual close.
C1_Witness ==
    /\ Len(trade_history) = 2
    /\ trade_history[1].pnl # Zero
    /\ trade_history[2].pnl # Zero
    /\ trade_history[1].pnl # trade_history[2].pnl
    /\ \E h \in Range(trade_history) : h.close_reason = "MANUAL_CLOSE"
    /\ \E h \in Range(trade_history) : h.close_reason = "STOP_LOSS"

\* C2: a closed trade's id is no longer among the open trades and is in
\* trade_history exactly once; no id is in trade_history more than once.
C2_ClosedIdExactlyOnce ==
    /\ \A i, j \in DOMAIN trade_history :
          i # j => trade_history[i].id # trade_history[j].id
    /\ \A i \in DOMAIN trade_history, j \in DOMAIN active_trades :
          trade_history[i].id # active_trades[j].id

\* C3: no two trades, open or closed, carry the same id, and ids increase in
\* the order in which the trades were opened.
C3_IdsUniqueAndIncreasing ==
    \A t, u \in AllTrades : t.obj < u.obj => t.id < u.id

----------------------------------------------------------------------------
\* C4: validate_trade rejects every signal while the daily-loss limit is
\* reached, rejects a signal lacking 'signal', 'entry_price' or 'stop_loss',
\* and rejects a confidence below 0.6 whatever the other fields are; the three
\* tests are made in that order and it accepts exactly when none applies.
C4_ValidateTradeRules ==
    LET tripped == BreakerTripped
    IN  \A s \in Signals :
            LET missing == \E f \in {"signal", "entry_price", "stop_loss"} :
                               f \notin DOMAIN s
                low     == IF "confidence" \in DOMAIN s
                           THEN RLt(s.confidence, R(6, 10))
                           ELSE TRUE
                log     == validate_log(s)
            IN  /\ tripped => log = "Daily loss limit reached"
                /\ ~tripped /\ missing => log = "Signal missing required fields"
                /\ ~tripped /\ ~missing /\ low => log = "Signal confidence too low"
                /\ validate_trade(s) <=> ~tripped /\ ~missing /\ ~low

\* execute_trade has just rejected a signal while the limit is reached and a
\* trade is still open.
C4_Witness ==
    /\ BreakerTripped
    /\ result = "False"
    /\ active_trades # <<>>

\* C5: once the daily-loss limit is reached it stays reached, whatever
\* trades are closed afterwards.
C5_BreakerLatches == [][BreakerTripped => BreakerTripped']_vars

\* The arguments calculate_position_size is asked about: the entry and stop
\* of every signal that carries them.
SizeArgs ==
    {<<s.entry_price, s.stop_loss>> :
        s \in {x \in Signals : {"entry_price", "stop_loss"} \subseteq DOMAIN x}}

SizeFormula(entry, stop) ==
    IF entry = stop THEN Zero
    ELSE RMin(RDiv(RMul(account_balance, R(2, 100)), RAbs(RSub(entry, stop))),
              RMul(account_balance, R(1, 10)))

\* C6 as stated: calculate_position_size is 0 for entry = stop, otherwise
\* min(balance * 0.02 / |entry - stop|, balance * 0.10), and never exceeds
\* balance * 0.10 for any reachable balance.
C6_SizeNeverExceedsCap ==
    LET cap == RMul(account_balance, R(1, 10))
    IN  \A a \in SizeArgs :
            LET size == calculate_position_size(a[1], a[2])
            IN  /\ size = SizeFormula(a[1], a[2])
                /\ RLe(size, cap)

\* C6 amended: the same value, which does not exceed balance * 0.10 whenever
\* the balance is not negative; with balance 10000, entry 1.2000 and stop
\* 1.1900 it is 1000.
C6_SizeCappedForNonNegativeBalance ==
    LET cap == RMul(account_balance, R(1, 10))
    IN  /\ \A a \in SizeArgs :
            LET size == calculate_position_size(a[1], a[2])
            IN  /\ size = SizeFormula(a[1], a[2])
                /\ account_balance[1] >= 0 => RLe(size, cap)
        /\ account_balance = R(10000, 1)
              => calculate_position_size(R(12, 10), R(119, 100)) = R(1000, 1)

\* After a close changed the balance, one open trade was sized by the cap and
\* another by the risk amount.
C6_Witness ==
    /\ account_balance # R(10000, 1)
    /\ RLt(Zero, account_balance)
    /\ \E t \in Range(active_trades) :
          t.position_size = RMul(account_balance, R(1, 10))
    /\ RLt(calculate_position_size(R(15, 10), R(1, 1)),
           RMul(account_balance, R(1, 10)))

----------------------------------------------------------------------------
\* C7: execute_trade(signal) appends a trade to the open trades exactly when
\* validate_trade(signal) holds and the computed position size is positive;
\* otherwise it returns False and leaves active_trades, trade_history,
\* account_balance and daily_pnl as they were. So every open trade has a
\* positive position size.
C7_ExecuteTradeGate ==
    /\ [](\A t \in Range(active_trades) : RLt(Zero, t.position_size))
    /\ [][\A s \in Signals :
            execute_trade(s) =>
                IF validate_trade(s)
                   /\ RLt(Zero, calculate_position_size(s.entry_price, s.stop_loss))
                THEN /\ result' = "True"
                     /\ Len(active_trades') = Len(active_trades) + 1
                     /\ SubSeq(active_trades', 1, Len(active_trades)) = active_trades
                     /\ LET t == active_trades'[Len(active_trades')]
                        IN  /\ t.signal_type = s.signal
                            /\ t.entry_price = s.entry_price
                            /\ t.stop_loss = s.stop_loss
                            /\ t.position_size =
                                 calculate_position_size(s.entry_price, s.stop_loss)
                            /\ t.status = "OPEN"
                     /\ UNCHANGED <<trade_history, account_balance, daily_pnl>>
                ELSE /\ result' = "False"
                     /\ UNCHANGED <<active_trades, trade_history,
                                    account_balance, daily_pnl>>]_vars

\* execute_trade has just rejected a signal, not because of the daily-loss
\* limit, after it had opened a trade.
C7_Witness ==
    /\ result = "False"
    /\ ~BreakerTripped
    /\ active_trades # <<>>

\* The close the claim C8 expects of monitor_trades for a trade at a price.
ExpectedClose(t, p) ==
    IF t.signal_type = "BUY"
    THEN IF RLe(p, t.stop_loss) THEN "STOP_LOSS"
         ELSE IF t.take_profit # None /\ RLe(t.take_profit, p) THEN "TAKE_PROFIT"
         ELSE "NONE"
    ELSE IF t.signal_type = "SELL"
    THEN IF RLe(t.stop_loss, p) THEN "STOP_LOSS"
         ELSE IF t.take_profit # None /\ RLe(p, t.take_profit) THEN "TAKE_PROFIT"
         ELSE "NONE"
    ELSE "NONE"

\* C8: for every open trade whose current price is available, monitor_trades
\* closes a BUY trade with STOP_LOSS if price <= stop_loss, else with
\* TAKE_PROFIT if take_profit is set and price >= take_profit, a SELL trade
\* with STOP_LOSS if price >= stop_loss, else with TAKE_PROFIT if take_profit
\* is set and price <= take_profit; a trade meeting neither stays open and
\* unchanged.
C8_MonitorClosesOnStopOrTake ==
    [][\A prices \in [1..Len(active_trades) -> FeedPrices] :
          monitor_trades(prices) =>
              \A i \in DOMAIN active_trades :
                  LET t == active_trades[i]
                      p == prices[i]
                      expected == ExpectedClose(t, p)
                  IN  p # Zero =>
                        IF expected = "NONE"
                        THEN /\ t \in Range(active_trades')
                             /\ \A h \in NewlyClosed : h.obj # t.obj
                        ELSE /\ \A u \in Range(active_trades') : u.obj # t.obj
                             /\ \E h \in NewlyClosed :
                                   /\ h.obj = t.obj
                                   /\ h.close_reason = expected
                                   /\ h.exit_price = p]_vars

\* monitor_trades closed a BUY trade at its stop and a SELL trade at its take
\* profit, or kept a trade whose take profit is unset.
C8_Witness ==
    /\ result = "None"
    /\ \E h \in Range(trade_history) :
          /\ h.signal_type = "BUY"
          /\ h.close_reason = "STOP_LOSS"
          /\ h.exit_price = h.stop_loss
    /\ \E h \in Range(trade_history) :
          /\ h.signal_type = "SELL"
          /\ h.close_reason = "TAKE_PROFIT"

\* C9: a trade is closed at most once, and a trade whose exit price meets
\* both its stop-loss and its take-profit condition was closed by
\* monitor_trades with reason STOP_LOSS, never TAKE_PROFIT.
C9_StopLossBeforeTakeProfit ==
    /\ \A i, j \in DOMAIN trade_history :
          i # j => trade_history[i].obj # trade_history[j].obj
    /\ \A h \in Range(trade_history), t \in Range(active_trades) : h.obj # t.obj
    /\ \A h \in Range(trade_history) :
          LET stop == \/ h.signal_type = "BUY" /\ RLe(h.exit_price, h.stop_loss)
                      \/ h.signal_type = "SELL" /\ RLe(h.stop_loss, h.exit_price)
          IN  h.close_reason \in {"STOP_LOSS", "TAKE_PROFIT"} /\ stop
                  => h.close_reason = "STOP_LOSS"

\* monitor_trades closed a BUY trade at a price at or below its stop and at or
\* above its take profit.
C9_Witness ==
    \E h \in Range(trade_history) :
        /\ h.signal_type = "BUY"
        /\ h.take_profit # None
        /\ RLe(h.exit_price, h.stop_loss)
        /\ RLe(h.take_profit, h.exit_price)
        /\ h.close_reason = "STOP_LOSS"

\* C10: close_trade records pnl = (exit_price - entry_price) * position_size
\* for a BUY trade and (entry_price - exit_price) * position_size for a SELL
\* trade, and the account balance changes by exactly the pnl of the trades a
\* step closes; a BUY trade with entry 1.1000 and size 100 closed at 1.0940
\* has pnl -0.60.
C10_PnlFormulaAndBalance ==
    [][LET new == SubSeq(trade_history', Len(trade_history) + 1, Len(trade_history'))
       IN  /\ \A j \in DOMAIN new :
                 LET h == new[j]
                 IN  /\ h.signal_type = "BUY" =>
                           h.pnl = RMul(RSub(h.exit_price, h.entry_price),
                                        h.position_size)
                     /\ h.signal_type = "SELL" =>
                           h.pnl = RMul(RSub(h.entry_price, h.exit_price),
                                        h.position_size)
           /\ account_balance' = RAdd(account_balance, SumPnl(new))
           /\ trade_pnl([signal_type |-> "BUY", entry_price |-> R(11, 10),
                         position_size |-> R(100, 1)], R(1094, 1000)) = R(-6, 10)
      ]_vars

\* A BUY trade and a SELL trade were closed, one at a loss and one at a profit.
C10_Witness ==
    /\ \E h \in Range(trade_history) :
          h.signal_type = "BUY" /\ RLt(h.pnl, Zero)
    /\ \E h \in Range(trade_history) :
          h.signal_type = "SELL" /\ RLt(Zero, h.pnl)

----------------------------------------------------------------------------
\* The ledger after a step, as one value.
LedgerAfter ==
    [active |-> active_trades', history |-> trade_history',
     balance |-> account_balance', daily |-> daily_pnl']

\* The prices of a later invocation of monitor_trades in which only the trade
\* with identity obj gets a price, p.
OnlyPriceFor(obj, p) ==
    [k \in 1..Len(active_trades') |->
        IF active_trades'[k].obj = obj THEN p ELSE Zero]

\* C11: when the price of an open trade is unavailable (0), monitor_trades
\* skips the trade: it stays open and unchanged and nothing is booked for it
\* (with no price at all the ledger and the risk totals are unchanged); the
\* other open trades are still closed or kept according to their prices in
\* the same invocation, and the next invocation evaluates the skipped trade
\* again at the price it then gets.
C11_UnavailablePriceSkipsTrade ==
    [][\A prices \in [1..Len(active_trades) -> FeedPrices] :
          monitor_trades(prices) =>
              /\ (\A i \in DOMAIN prices : prices[i] = Zero)
                     => UNCHANGED <<active_trades, trade_history,
                                    account_balance, daily_pnl>>
              /\ \A i \in DOMAIN active_trades :
                    LET t == active_trades[i]
                    IN  IF prices[i] = Zero
                        THEN /\ t \in Range(active_trades')
                             /\ \A h \in NewlyClosed : h.obj # t.obj
                             /\ \A p \in FeedPrices \ {Zero} :
                                   LET later == monitor_loop(LedgerAfter, active_trades',
                                                             OnlyPriceFor(t.obj, p), 1)
                                       expected == ExpectedClose(t, p)
                                   IN  IF expected = "NONE"
                                       THEN t \in Range(later.active)
                                       ELSE \E h \in Range(later.history) :
                                               /\ h.obj = t.obj
                                               /\ h.close_reason = expected
                                               /\ h.exit_price = p
                        ELSE (ExpectedClose(t, prices[i]) # "NONE")
                                <=> (\E h \in NewlyClosed : h.obj = t.obj)
              /\ account_balance' =
                    RAdd(account_balance,
                         SumPnl(SubSeq(trade_history', Len(trade_history) + 1,
                                       Len(trade_history'))))]_vars

\* monitor_trades has closed a trade while an older trade, which every
\* available price closes, is still open: the older trade had no price.
C11_Witness ==
    /\ robot = "ForexTradingRobot"
    /\ result = "None"
    /\ \E t \in Range(active_trades), h \in Range(trade_history) :
          /\ \A p \in FeedPrices \ {Zero} : ExpectedClose(t, p) # "NONE"
          /\ t.obj < h.obj
          /\ h.close_reason \in {"STOP_LOSS", "TAKE_PROFIT"}

----------------------------------------------------------------------------
\* The value the last strategy call returned, when a strategy was called and
\* did not raise.
StrategyReturned ==
    /\ out # <<>>
    /\ out.call \in Range(Strategies)
    /\ ~Raised(out.value)

\* C12: for every price series and each of the three strategies, a generated
\* BUY signal has stop_loss < entry_price, a generated SELL signal has
\* stop_loss > entry_price, and every BUY or SELL signal carries entry_price
\* and stop_loss.
C12_StopOnLosingSide ==
    StrategyReturned /\ out.value.signal \in {"BUY", "SELL"} =>
        /\ {"entry_price", "stop_loss"} \subseteq DOMAIN out.value
        /\ out.value.signal = "BUY" =>
              RLt(out.value.stop_loss, out.value.entry_price)
        /\ out.value.signal = "SELL" =>
              RLt(out.value.entry_price, out.value.stop_loss)

\* The trend-following strategy returned a SELL signal.
C12_Witness ==
    /\ StrategyReturned
    /\ out.call = "Trend Following"
    /\ out.value.signal = "SELL"

\* The minimum lookback the claims name for a strategy.
MinLookback(strategy) == IF strategy = "Trend Following" THEN 30 ELSE 20

\* C13: for every price series shorter than the strategy's minimum lookback
\* (30 for TrendFollowing, 20 for MeanReversion and Breakout), the empty
\* series included, generate_signal raises no error and returns HOLD with
\* confidence 0 and without entry_price and stop_loss.
C13_ShortSeriesHolds ==
    /\ out # <<>>
    /\ out.call \in Range(Strategies)
    /\ len(frame) < MinLookback(out.call)
    => /\ ~Raised(out.value)
       /\ out.value.signal = "HOLD"
       /\ out.value.confidence = Zero
       /\ "entry_price" \notin DOMAIN out.value
       /\ "stop_loss" \notin DOMAIN out.value

\* Breakout was given 19 bars without High and Low columns and returned HOLD.
C13_Witness ==
    /\ StrategyReturned
    /\ out.call = "Breakout"
    /\ len(frame) = 19
    /\ ~HasColumn(frame, "High")
    /\ out.value.signal = "HOLD"

\* The simple moving average of the closes at position end, as the claims
\* read it: the mean of the last period closes up to end, of all of them when
\* there are fewer.
ClaimSma(close, period, end) ==
    Mean(close, IF end > period THEN end - period + 1 ELSE 1, end)

\* C14: for every series of at least 30 closes, exactly 30 included,
\* TrendFollowing returns BUY with confidence 0.7, stop = entry * 0.98 and
\* take = entry * 1.04 when SMA(10) <= SMA(30) at the second-to-last point and
\* SMA(10) > SMA(30) at the last point, SELL with stop = entry * 1.02 and
\* take = entry * 0.96 when SMA(10) >= SMA(30) at the second-to-last point and
\* SMA(10) < SMA(30) at the last point, and HOLD otherwise.
C14_CrossoverSignals ==
    /\ StrategyReturned
    /\ out.call = "Trend Following"
    /\ len(frame) >= 30
    => LET close      == frame.columns.Close
           n          == Len(close)
           entry      == close[n]
           prev_short == ClaimSma(close, 10, n - 1)
           prev_long  == ClaimSma(close, 30, n - 1)
           cur_short  == ClaimSma(close, 10, n)
           cur_long   == ClaimSma(close, 30, n)
           v          == out.value
       IN  IF RLe(prev_short, prev_long) /\ RLt(cur_long, cur_short)
           THEN /\ v.signal = "BUY"
                /\ v.confidence = R(7, 10)
                /\ v.entry_price = entry
                /\ v.stop_loss = RMul(entry, R(98, 100))
                /\ v.take_profit = RMul(entry, R(104, 100))
           ELSE IF RLe(prev_long, prev_short) /\ RLt(cur_short, cur_long)
           THEN /\ v.signal = "SELL"
                /\ v.entry_price = entry
                /\ v.stop_loss = RMul(entry, R(102, 100))
                /\ v.take_profit = RMul(entry, R(96, 100))
           ELSE v.signal = "HOLD"

\* The average of the gains (sign 1) or of the losses (sign -1) over the
\* trailing period deltas of a series of at least period + 1 points.
TrailingAverage(series, period, sign) ==
    LET n     == Len(series)
        moves == [i \in 1..(n - 1) |->
                    LET d == RSub(series[i + 1], series[i])
                    IN  IF sign * d[1] > 0 THEN RAbs(d) ELSE Zero]
    IN  RDiv(Sum(moves, n - period, n - 1), R(period, 1))

\* C15: rsi(series, period) is exactly 50 for a series of fewer than
\* period + 1 points, exactly 100 when the average loss over the trailing
\* period deltas is 0, and otherwise 100 - 100 / (1 + avg_gain / avg_loss), a
\* value inside [0, 100].
C15_RsiValues ==
    /\ out # <<>>
    /\ out.call \in {"TechnicalIndicators.rsi", "SimpleTechnicalIndicators.rsi"}
    => LET series == IF empty(frame) THEN <<>> ELSE frame.columns.Close
           period == out.period
       IN  IF Len(series) < period + 1
           THEN out.value = R(50, 1)
           ELSE LET avg_gain == TrailingAverage(series, period, 1)
                    avg_loss == TrailingAverage(series, period, -1)
                IN  IF avg_loss = Zero
                    THEN out.value = R(100, 1)
                    ELSE /\ out.value =
                              RSub(R(100, 1),
                                   RDiv(R(100, 1),
                                        RAdd(R(1, 1), RDiv(avg_gain, avg_loss))))
                         /\ RLe(Zero, out.value)
                         /\ RLe(out.value, R(100, 1))

----------------------------------------------------------------------------
\* Vocabulary of the claims about a trading cycle.

\* A step that is one trading cycle.
CycleStep == cycles' = cycles + 1

\* The trades opened by a step.
NewTrades == {t \in Range(active_trades') : t.obj > opened}

\* The position of a symbol in currency_pairs.
IndexOf(symbol) == CHOOSE i \in DOMAIN currency_pairs : currency_pairs[i] = symbol

\* analyze_market was called for the symbol in the cycle a step ran.
AnalyzedNow(symbol) == IndexOf(symbol) <= market'.analyzed

\* The strategies that emit, on the data of the cycle a step ran, a BUY or
\* SELL signal for the symbol that validate_trade accepts and that gets a
\* positive size on the ledger the cycle leaves (opening trades changes
\* neither the balance nor daily_pnl).
Emitting(symbol) ==
    {k \in DOMAIN Strategies :
        \E v \in {generate_signal(Strategies[k], market'.data[symbol])} :
            /\ ~Raised(v)
            /\ v.signal \in {"BUY", "SELL"}
            /\ book_execute_trade(Book(LedgerAfter, 0),
                                  [strategy |-> Strategies[k],
                                   symbol |-> symbol] @@ v).opened = 1}

\* A strategy raises on the data the cycle has for a symbol.
Raising(symbol) ==
    {k \in DOMAIN Strategies :
        Raised(generate_signal(Strategies[k], market'.data[symbol]))}

\* C16: within one trading cycle no strategy's result suppresses another's:
\* for a symbol on which k strategies emit BUY or SELL signals that each pass
\* validate_trade and get a positive size, k separate trades are opened on
\* that symbol in that cycle, also when they are in opposite directions.
C16_NoStrategySuppressesAnother ==
    [][CycleStep =>
          \A symbol \in Symbols :
              Cardinality({t \in NewTrades : t.symbol = symbol})
                  = Cardinality(Emitting(symbol))]_vars

\* C17: if the evaluation of one (symbol, strategy) pair raises an error in a
\* trading cycle, the remaining strategies of that symbol and all remaining
\* symbols are still evaluated in that cycle, and each of their actionable
\* signals is passed to execute_trade, which opens its trade.
C17_RaiseIsIsolated ==
    [][CycleStep /\ (\E symbol \in Symbols : Raising(symbol) # {}) =>
          /\ \A symbol \in Symbols : AnalyzedNow(symbol)
          /\ \A symbol \in Symbols : \A k \in Emitting(symbol) :
                \E t \in NewTrades :
                    t.symbol = symbol /\ t.strategy = Strategies[k]]_vars

\* C18: when the historical price series of a symbol is missing or empty,
\* analyze_market yields no signals for it and no trade is opened on it in
\* that cycle, every other symbol is still analysed in the same cycle, and a
\* symbol skipped in one cycle is analysed again in the next.
C18_EmptySeriesSkipsSymbol ==
    [][CycleStep =>
          \A symbol \in Symbols :
              /\ empty(market'.data[symbol]) =>
                    /\ analyze_market(symbol, market'.data[symbol]).signals = <<>>
                    /\ \A t \in NewTrades : t.symbol # symbol
                    /\ \A other \in Symbols \ {symbol} : AnalyzedNow(other)
              /\ (/\ cycles > 0
                  /\ empty(market.data[symbol])
                  /\ IndexOf(symbol) <= market.analyzed) => AnalyzedNow(symbol)]_vars

----------------------------------------------------------------------------
\* The ids of the open trades.
OpenIds == {active_trades[i].id : i \in DOMAIN active_trades}

\* C19: manual close of a trade id: if the id is among the open trades and a
\* current price is available, that trade is closed at the current price with
\* reason MANUAL_CLOSE; if the id is not among the open trades the result is
\* not-found, and if the price is unavailable the result is an error; in both
\* failure cases active_trades, trade_history, account_balance and daily_pnl
\* are unchanged.
C19_ManualCloseOutcomes ==
    [][\A trade_id \in TradeIds, current_price \in FeedPrices :
          close_trade_manual(trade_id, current_price) =>
              LET status == close_trade_manual_status(trade_id, current_price)
              IN  IF trade_id \notin OpenIds
                  THEN /\ status = 404
                       /\ UNCHANGED <<active_trades, trade_history,
                                      account_balance, daily_pnl>>
                  ELSE IF current_price = Zero
                  THEN /\ status = 500
                       /\ UNCHANGED <<active_trades, trade_history,
                                      account_balance, daily_pnl>>
                  ELSE /\ status = 200
                       /\ trade_id \notin {t.id : t \in Range(active_trades')}
                       /\ Len(active_trades') = Len(active_trades) - 1
                       /\ Range(active_trades') \subseteq Range(active_trades)
                       /\ Len(trade_history') = Len(trade_history) + 1
                       /\ SubSeq(trade_history', 1, Len(trade_history))
                              = trade_history
                       /\ LET h == trade_history'[Len(trade_history')]
                          IN  /\ h.id = trade_id
                              /\ h.exit_price = current_price
                              /\ h.close_reason = "MANUAL_CLOSE"
                              /\ h.status = "CLOSED"]_vars

\* A manual close has closed one of two open trades, the older one, and the
\* other is still open.
C19_Witness ==
    /\ robot = "SimpleForexTradingRobot"
    /\ Len(trade_history) = 1
    /\ trade_history[1].close_reason = "MANUAL_CLOSE"
    /\ \E t \in Range(active_trades) : trade_history[1].id < t.id

\* C20: a malformed manual trade request is rejected before it reaches the
\* ledger: after any sequence of manual-trade requests, monitoring passes and
\* manual closes, every trade in the open set and in the history has direction
\* BUY or SELL and has symbol, entry_price and stop_loss set.
C20_LedgerTradesWellFormed ==
    \A t \in AllTrades :
        /\ t.signal_type \in {"BUY", "SELL"}
        /\ t.symbol # ""
        /\ t.entry_price \notin {None, NaN}
        /\ t.stop_loss \notin {None, NaN}

----------------------------------------------------------------------------
\* C23: trade_history is append-only and ordered by close time: every
\* operation leaves the existing entries of trade_history unchanged in content
\* and position, close_trade appends exactly one entry at the end, and so the
\* order of the history is the order in which trades were closed, not the
\* order in which they were opened.
C23_HistoryAppendOnly ==
    [][/\ Len(trade_history') >= Len(trade_history)
       /\ SubSeq(trade_history', 1, Len(trade_history)) = trade_history
       /\ Len(trade_history') - Len(trade_history)
              = Len(active_trades) + (opened' - opened) - Len(active_trades')
       /\ \A h \in NewlyClosed : \E t \in Range(active_trades) : t.obj = h.obj
       /\ \A i \in DOMAIN active_trades, p \in FeedPrices \ {Zero} :
             LET after == close_trade(Ledger, active_trades[i], p, "MANUAL_CLOSE")
             IN  /\ Len(after.history) = Len(trade_history) + 1
                 /\ SubSeq(after.history, 1, Len(trade_history)) = trade_history
                 /\ after.history[Len(after.history)].obj = active_trades[i].obj
      ]_vars

\* The trade opened second was closed first and stands first in the history.
C23_Witness ==
    /\ Len(trade_history) = 2
    /\ trade_history[1].obj > trade_history[2].obj

\* C24: account_balance and daily_pnl are changed only by close_trade:
\* execute_trade, whether it opens a trade or rejects, and a monitor_trades
\* invocation that closes no trade leave both unchanged: every step that adds
\* nothing to trade_history leaves them unchanged, and execute_trade adds
\* nothing to it (validate_trade, calculate_position_size and analyze_market
\* only read the state).
C24_OnlyCloseMovesBalance ==
    [][/\ trade_history' = trade_history
              => UNCHANGED <<account_balance, daily_pnl>>
       /\ \A s \in Signals :
             execute_trade(s)
                 => UNCHANGED <<trade_history, account_balance, daily_pnl>>
      ]_vars

\* monitor_trades has run over open trades after a close and closed none of
\* them, and the balance is the one the close left.
C24_Witness ==
    /\ result = "None"
    /\ active_trades # <<>>
    /\ Len(trade_history) = 1
    /\ account_balance = RAdd(StartingBalance, trade_history[1].pnl)
    /\ account_balance # StartingBalance

\* The fields close_trade adds to a trade.
ExitFields == {"exit_price", "pnl", "close_reason"}

\* C26: in every reachable state the open set and the history partition the
\* trades ever opened: every trade in active_trades has status OPEN and no
\* exit_price, pnl or close_reason; every trade in trade_history has status
\* CLOSED with exit_price, pnl and close_reason set; no trade is in both
\* collections; and the number of trades opened so far equals
\* len(active_trades) + len(trade_history).
C26_OpenAndClosedPartition ==
    /\ \A t \in Range(active_trades) :
          t.status = "OPEN" /\ ExitFields \cap DOMAIN t = {}
    /\ \A h \in Range(trade_history) :
          /\ h.status = "CLOSED"
          /\ ExitFields \subseteq DOMAIN h
          /\ h.exit_price \notin {None, NaN}
          /\ h.pnl \notin {None, NaN}
          /\ h.close_reason \in {"STOP_LOSS", "TAKE_PROFIT", "MANUAL_CLOSE"}
    /\ \A t \in Range(active_trades), h \in Range(trade_history) : t.obj # h.obj
    /\ \A i, j \in DOMAIN active_trades : i # j => active_trades[i].obj # active_trades[j].obj
    /\ \A i, j \in DOMAIN trade_history : i # j => trade_history[i].obj # trade_history[j].obj
    /\ opened = Len(active_trades) + Len(trade_history)

\* Of the trades opened, one is closed and one is still open.
C26_Witness ==
    /\ opened = MaxTrades
    /\ Len(trade_history) >= 1
    /\ Len(active_trades) >= 1

\* C30: get_performance_stats, when at least one trade is closed, reports
\* total_trades = len(trade_history), winning_trades = the number of closed
\* trades with pnl > 0, losing_trades = total_trades - winning_trades (a trade
\* with pnl = 0 counts as losing), active_trades = len(active_trades) and a
\* total_pnl equal to account_balance minus the starting balance; with an
\* empty history it returns only a message and none of these fields.
C30_PerformanceStats ==
    LET stats == get_performance_stats
    IN  IF Len(trade_history) = 0
        THEN DOMAIN stats = {"message"}
        ELSE /\ stats.total_trades = Len(trade_history)
             /\ stats.winning_trades =
                    Cardinality({h \in DOMAIN trade_history :
                                    trade_history[h].pnl[1] > 0})
             /\ stats.losing_trades =
                    Cardinality({h \in DOMAIN trade_history :
                                    trade_history[h].pnl[1] <= 0})
             /\ stats.losing_trades = stats.total_trades - stats.winning_trades
             /\ stats.active_trades = Len(active_trades)
             /\ stats.total_pnl = RSub(stats.account_balance, R(10000, 1))
             /\ stats.total_pnl = round2(RSub(account_balance, R(10000, 1)))

\* The history holds a trade closed with pnl 0 and a trade closed at a profit,
\* and a trade is open.
C30_Witness ==
    /\ \E h \in Range(trade_history) : h.pnl = Zero
    /\ \E h \in Range(trade_history) : RLt(Zero, h.pnl)
    /\ get_performance_stats.losing_trades = 1
    /\ get_performance_stats.winning_trades = 1

----------------------------------------------------------------------------
\* Every bar of the frame has a positive price and Low <= Close <= High.
ConsistentBars(data) ==
    /\ {"High", "Low", "Close"} \subseteq DOMAIN data.columns
    /\ \A i \in 1..len(data) :
          /\ RLt(Zero, data.columns.Low[i])
          /\ RLe(data.columns.Low[i], data.columns.Close[i])
          /\ RLe(data.columns.Close[i], data.columns.High[i])

\* C29: Breakout compares the last close with resistance = max(High) and
\* support = min(Low) over the trailing 20 bars, the last bar included: it
\* returns BUY exactly when close > resistance * 1.001 and otherwise SELL
\* exactly when close < support * 0.999; therefore for every series of at
\* least 20 bars with positive prices in which each bar has
\* Low <= Close <= High it returns HOLD, never BUY or SELL.
C29_BreakoutHoldsOnConsistentBars ==
    /\ out # <<>>
    /\ out.call = "Breakout"
    /\ len(frame) >= 20
    /\ {"High", "Low", "Close"} \subseteq DOMAIN frame.columns
    => LET n          == len(frame)
           resistance == Max(frame.columns.High, n - 19, n)
           support    == Min(frame.columns.Low, n - 19, n)
           close      == frame.columns.Close[n]
           above      == RLt(RMul(resistance, R(1001, 1000)), close)
           below      == RLt(close, RMul(support, R(999, 1000)))
       IN  /\ ~Raised(out.value)
           /\ out.value.signal = "BUY" <=> above
           /\ out.value.signal = "SELL" <=> ~above /\ below
           /\ ConsistentBars(frame) => out.value.signal = "HOLD"

\* Breakout returned HOLD for consistent bars whose last close is more than
\* 0.1% above the high of every earlier bar.
C29_Witness ==
    /\ StrategyReturned
    /\ out.call = "Breakout"
    /\ len(frame) >= 20
    /\ ConsistentBars(frame)
    /\ frame.columns.High # frame.columns.Close
    /\ \A i \in 1..(len(frame) - 1) :
          RLt(RMul(frame.columns.High[i], R(1001, 1000)),
              frame.columns.Close[len(frame)])
    /\ out.value.signal = "HOLD"

----------------------------------------------------------------------------
\* C28: for every trade opened from a strategy-generated signal (positive
\* prices), a close by monitor_trades with reason STOP_LOSS books a strictly
\* negative pnl and a close with reason TAKE_PROFIT books a strictly positive
\* pnl; consequently account_balance decreases only in a step that closes
\* such a trade with reason STOP_LOSS.
C28_StopLosesTakeWins ==
    [][/\ \A t \in NewlyClosed :
             /\ t.close_reason \in {"STOP_LOSS", "TAKE_PROFIT"}
             /\ t.close_reason = "STOP_LOSS" => RLt(t.pnl, Zero)
             /\ t.close_reason = "TAKE_PROFIT" => RLt(Zero, t.pnl)
       /\ RLt(account_balance', account_balance) =>
             \E t \in NewlyClosed : t.close_reason = "STOP_LOSS"
       /\ RLe(account_balance', account_balance) /\ NewlyClosed # {} =>
             \E t \in NewlyClosed : t.close_reason = "STOP_LOSS"]_vars

\* monitor_trades closed a strategy's BUY trade on its stop loss, and the
\* balance fell by the loss.
C28_Witness ==
    /\ Len(trade_history) = 1
    /\ trade_history[1].strategy \in Range(Strategies)
    /\ trade_history[1].signal_type = "BUY"
    /\ trade_history[1].close_reason = "STOP_LOSS"
    /\ RLt(trade_history[1].pnl, Zero)
    /\ account_balance = RAdd(StartingBalance, trade_history[1].pnl)

----------------------------------------------------------------------------
\* The trades a cycle's monitoring has to close: those open when the cycle
\* begins whose price is available and at or beyond the stop loss or the take
\* profit.
DueInCycle ==
    {t \in Range(active_trades) :
        /\ market'.quote[t.symbol] # Zero
        /\ ExpectedClose(t, market'.quote[t.symbol]) # "NONE"}

\* C25: in every trading cycle monitoring of the open trades completes
\* before any signal is generated or any trade is opened: the trades that were
\* open when the cycle began are checked against the cycle's prices and
\* closed, the trades the cycle opens are validated and sized on the balance
\* and daily_pnl that monitoring left, and a trade opened in a cycle is never
\* closed in that same cycle, whatever its price; it is first monitored in the
\* next cycle.
C25_MonitorThenOpen ==
    [][CycleStep =>
          /\ \A t \in NewlyClosed :
                /\ t.obj <= opened
                /\ \E o \in DueInCycle : o.obj = t.obj
          /\ \A o \in DueInCycle : \E t \in NewlyClosed : t.obj = o.obj
          /\ Cardinality(NewTrades) = opened' - opened
          /\ \A t \in NewTrades :
                /\ t.status = "OPEN"
                /\ t.id = Len(trade_history') + 1
                /\ t.position_size
                      = RMin(RDiv(RMul(account_balance', max_risk_per_trade),
                                  RAbs(RSub(t.entry_price, t.stop_loss))),
                             RMul(account_balance', MaxPositionFraction))]_vars

\* The second cycle closed a trade of the first and then opened a trade (its
\* id counts the close) whose stop loss or take profit the cycle's price for
\* its symbol had already met; the new trade is open at the end of the cycle.
C25_Witness ==
    /\ cycles = 2
    /\ \E h \in Range(trade_history), t \in Range(active_trades) :
          /\ h.obj < t.obj
          /\ market.quote[t.symbol] # Zero
          /\ ExpectedClose(t, market.quote[t.symbol]) # "NONE"
          /\ t.id = Len(trade_history) + 1

----------------------------------------------------------------------------
\* The threads that are in a trading cycle.
InCycle == {t \in DOMAIN threads : threads[t] = "cycle"}

\* C22: trading cycles never overlap: under every interleaving of /start and
\* /stop requests (two /start requests before the first thread has set
\* is_running, or /stop followed by /start while the loop sleeps between
\* cycles), at most one trading-loop thread is executing run_trading_cycle at
\* any time.
C22_CyclesNeverOverlap == Cardinality(InCycle) <= 1

----------------------------------------------------------------------------
\* Every trading thread has left start_trading.
AllReturned == \A t \in DOMAIN threads : threads[t] = "returned"

\* C27: stopping is between cycles and is effective. A thread begins a cycle
\* only from the loop's test with is_running True; a cycle in progress always
\* runs to its end and is followed by the loop's sleep, also when an error left
\* it; a thread leaves the loop only at the test, finding is_running False, and
\* never comes back; the step of stop_trading changes nothing but is_running;
\* and whenever is_running is False, either a later start_trading sets it to
\* True again or every trading loop eventually returns.
C27_StopBetweenCycles ==
    /\ [][/\ \A t \in DOMAIN threads :
                /\ threads[t] # "cycle" /\ threads'[t] = "cycle" =>
                      threads[t] = "while" /\ is_running
                /\ threads[t] = "cycle" /\ threads'[t] # "cycle" =>
                      threads'[t] = (IF result' = "None" THEN "sleep_300"
                                     ELSE "sleep_60")
                /\ threads[t] \in {"sleep_300", "sleep_60"} =>
                      threads'[t] \in {threads[t], "while"}
                /\ threads[t] # "returned" /\ threads'[t] = "returned" =>
                      threads[t] = "while" /\ ~is_running
                /\ threads[t] = "returned" => threads'[t] = "returned"
          /\ is_running /\ ~is_running' =>
                UNCHANGED <<threads, active_trades, trade_history,
                            account_balance, daily_pnl, opened, market>>]_vars
    /\ ~is_running ~> (is_running \/ AllReturned)

\* stop_trading has stopped a loop that ran a cycle in which an error was
\* raised: the thread slept, found is_running False and returned.
C27_Witness ==
    /\ ~is_running
    /\ threads # <<>>
    /\ AllReturned
    /\ market # <<>>
    /\ result = "200"
    /\ \E symbol \in Symbols : market.data[symbol] = RallyNoBars

----------------------------------------------------------------------------
\* C21: mutations of the ledger and of the risk state are serialized: under
\* every interleaving of the trading loop (monitor_trades, execute_trade)
\* with the manual-close and manual-trade request handlers, a trade is closed
\* at most once (close_trade never runs on a closed trade, which would end in
\* the ValueError of active_trades.remove), its P/L is added to
\* account_balance and daily_pnl at most once (both equal the sum of the
\* closed trades' P/L), and no two open trades have the same id.
C21_MutationsSerialized ==
    /\ result # "ValueError"
    /\ account_balance = RAdd(StartingBalance, SumPnl(trade_history))
    /\ daily_pnl = SumPnl(trade_history)
    /\ \A i \in DOMAIN active_trades, j \in DOMAIN active_trades :
          i # j => active_trades[i].id # active_trades[j].id

====
